---------------------------- MODULE Spec2Model ----------------------------
(***************************************************************************)
(* A model of localgoose: a schema-typed document mapper over one JSON     *)
(* file per collection.  The state is the backing file of one collection,  *)
(* the asynchronous operations in flight against it (each a sequence of    *)
(* steps separated by the awaits of the source), and the Documents the     *)
(* caller holds.                                                           *)
(***************************************************************************)
EXTENDS Integers, Sequences, FiniteSets, TLC

(***************************************************************************)
(* JavaScript values.  Every value is a record of the same shape, so that  *)
(* values of different kinds can be compared: k is the kind, n the number  *)
(* of a "number", s the characters of a "string" or the ISO-8601 form of   *)
(* the time value of a "date" (the empty sequence for an Invalid Date).    *)
(* "absent" marks a key an object does not have.  An "array" is an array   *)
(* of one-character strings, s its elements in order.  An "object" is the  *)
(* nested object { tags: v }: s holds the elements of v when v is an array *)
(* (n = 1) and the characters of v when v is a string (n = 0).             *)
(***************************************************************************)
Absent == [k |-> "absent", n |-> 0, s |-> <<>>]
Undef == [k |-> "undefined", n |-> 0, s |-> <<>>]
Null == [k |-> "null", n |-> 0, s |-> <<>>]
Num(i) == [k |-> "number", n |-> i, s |-> <<>>]
Str(cs) == [k |-> "string", n |-> 0, s |-> cs]
DateOf(cs) == [k |-> "date", n |-> 0, s |-> cs]
InvalidDate == DateOf(<<>>)
Arr(cs) == [k |-> "array", n |-> 0, s |-> cs]
Nested(v) == [k |-> "object", n |-> IF v.k = "array" THEN 1 ELSE 0, s |-> v.s]
Inner(o) == IF o.n = 1 THEN Arr(o.s) ELSE Str(o.s)
\* A field that holds a Document (a populated path): s is the _id of the
\* Document, whose record the Document's _populated map holds.
DocumentValue(v) == [k |-> "document", n |-> 0, s |-> v.s]

\* The keys of the objects of the model: the system fields and the paths of
\* the schemas, and the fields the aggregations read and write.
Keys == {"_id", "name", "age", "createdAt", "updatedAt", "tag", "profile", "total",
         "author", "editor"}

\* obj[key] in JavaScript: a missing key reads as undefined.
Get(o, key) == IF o[key].k = "absent" THEN Undef ELSE o[key]

\* The empty object literal {}.
EmptyObj == [key \in Keys |-> Absent]

\* The object spread { ...a, ...b }: every own key of b overrides a's.
Spread(a, b) == [key \in Keys |-> IF b[key].k = "absent" THEN a[key] ELSE b[key]]

\* value == null in JavaScript: true of null and of undefined.
IsNullish(v) == v.k \in {"null", "undefined"}

(***************************************************************************)
(* Strings are sequences of characters.  The strings the callers use:      *)
(***************************************************************************)
S_a == <<"a">>
S_b == <<"b">>
S_x == <<"x">>
S_null == <<"n", "u", "l", "l">>
\* "2020-01-01T00:00:00.000Z": a string that is also the ISO form of a date.
S_iso == <<"2","0","2","0","-","0","1","-","0","1","T",
           "0","0",":","0","0",":","0","0",".","0","0","0","Z">>
\* "2020-13-01T00:00:00.000Z": shaped like an ISO date, but month 13.
S_isoBad == <<"2","0","2","0","-","1","3","-","0","1","T",
              "0","0",":","0","0",":","0","0",".","0","0","0","Z">>
\* The instant the clock shows (new Date()), in ISO form:
\* "2021-06-15T12:00:00.000Z".
S_t1 == <<"2","0","2","1","-","0","6","-","1","5","T",
          "1","2",":","0","0",":","0","0",".","0","0","0","Z">>

Digits == {"0","1","2","3","4","5","6","7","8","9"}
DigitVal(c) ==
  CASE c = "0" -> 0 [] c = "1" -> 1 [] c = "2" -> 2 [] c = "3" -> 3
    [] c = "4" -> 4 [] c = "5" -> 5 [] c = "6" -> 6 [] c = "7" -> 7
    [] c = "8" -> 8 [] c = "9" -> 9 [] OTHER -> 0

\* The number two digits at positions i, i+1 of cs spell.
TwoDigits(cs, i) == 10 * DigitVal(cs[i]) + DigitVal(cs[i + 1])

(***************************************************************************)
(* Persistence: readJSON and writeJSON.                                    *)
(***************************************************************************)
\* The reviver's test /^\d{4}-\d{2}-\d{2}T\d{2}:\d{2}:\d{2}.\d{3}Z$/ : the
\* dot before the milliseconds is unescaped and matches any character.
IsoDateRegex(cs) ==
  /\ Len(cs) = 24
  /\ \A i \in {1, 2, 3, 4, 6, 7, 9, 10, 12, 13, 15, 16, 18, 19, 21, 22, 23} :
        cs[i] \in Digits
  /\ cs[5] = "-" /\ cs[8] = "-" /\ cs[11] = "T"
  /\ cs[14] = ":" /\ cs[17] = ":" /\ cs[24] = "Z"

\* new Date(string), for the strings of the model: the ISO form
\* YYYY-MM-DDTHH:mm:ss.sssZ with fields in range gives that instant, any
\* other string of the model gives an Invalid Date.  (Days 29 to 31, which
\* the engine normalises in short months, are not among the model's strings.)
DateParse(cs) ==
  IF /\ IsoDateRegex(cs) /\ cs[20] = "."
     /\ TwoDigits(cs, 6) \in 1..12 /\ TwoDigits(cs, 9) \in 1..28
     /\ TwoDigits(cs, 12) \in 0..23 /\ TwoDigits(cs, 15) \in 0..59
     /\ TwoDigits(cs, 18) \in 0..59
  THEN DateOf(cs)
  ELSE InvalidDate

\* The reviver of JSON.parse in readJSON: a string that passes the test
\* becomes new Date(string), every other value is kept.
Revive(v) == IF v.k = "string" /\ IsoDateRegex(v.s) THEN DateParse(v.s) ELSE v

\* What JSON.stringify writes for a property value.  A Date is turned by its
\* toJSON before the replacer of writeJSON sees it: the ISO string of a valid
\* date, null for an Invalid Date.  A property holding undefined is left out.
Serialize(v) ==
  CASE v.k = "date" -> IF v.s = <<>> THEN Null ELSE Str(v.s)
    [] v.k = "undefined" -> Absent
    [] OTHER -> v

\* JSON.parse(data, reviver) of the whole file: a list of objects.
ParseFile(text) == [i \in 1..Len(text) |-> [key \in Keys |-> Revive(text[i][key])]]

\* JSON.stringify(data, replacer, 2) of a list of objects.
StringifyDocs(docs) == [i \in 1..Len(docs) |-> [key \in Keys |-> Serialize(docs[i][key])]]

(***************************************************************************)
(* Comparison of JavaScript values.                                        *)
(***************************************************************************)
\* The UTF-16 code unit of a character of the model's strings.
CharCode(c) ==
  CASE c \in Digits -> 48 + DigitVal(c)
    [] c = "-" -> 45 [] c = "." -> 46 [] c = ":" -> 58
    [] c = "T" -> 84 [] c = "Z" -> 90
    [] c = "a" -> 97 [] c = "b" -> 98 [] c = "o" -> 111 [] c = "x" -> 120
    [] OTHER -> 0

\* a < b on strings: by code units, a proper prefix first.
RECURSIVE StrLess(_, _)
StrLess(a, b) ==
  IF b = <<>> THEN FALSE
  ELSE IF a = <<>> THEN TRUE
  ELSE IF CharCode(Head(a)) # CharCode(Head(b))
       THEN CharCode(Head(a)) < CharCode(Head(b))
  ELSE StrLess(Tail(a), Tail(b))

\* a === b: primitives by kind and content; a Date is an object and is
\* identical only to itself, never to a Date built by another parse or call.
StrictEquals(a, b) == a.k = b.k /\ a.k # "date" /\ a.n = b.n /\ a.s = b.s

\* a < b: two strings by code units; otherwise both as numbers, where
\* undefined and the strings of the model are NaN (every comparison false),
\* null is 0 and a Date is its time value.  The dates of the model lie after
\* 1970 and its numbers below their time values; two dates compare as their
\* ISO forms do.
IsNaN(v) == v.k \in {"undefined", "absent", "string"} \/ (v.k = "date" /\ v.s = <<>>)
JsLess(a, b) ==
  IF a.k = "string" /\ b.k = "string" THEN StrLess(a.s, b.s)
  ELSE IF IsNaN(a) \/ IsNaN(b) THEN FALSE
  ELSE IF a.k = "date" /\ b.k = "date" THEN StrLess(a.s, b.s)
  ELSE IF a.k = "date" THEN FALSE
  ELSE IF b.k = "date" THEN TRUE
  ELSE a.n < b.n

(***************************************************************************)
(* Schema and SchemaType.  A schema gives each path its options: the       *)
(* declared type, required, default (Absent: none), validate (the          *)
(* validator of the options, "none" or the name of a predicate) and ref;   *)
(* added lists the validators that calls of schemaType.validate(fn) added  *)
(* after the SchemaType was built.  A validator's name is its message.     *)
(***************************************************************************)
\* The paths of a schema in declaration order (the order of _paths).
Paths == <<"name", "age">>

Field(type, required, default, validate) ==
  [type |-> type, required |-> required, default |-> default, validate |-> validate,
   ref |-> "", added |-> <<>>]
\* { type: ObjectId, ref: name }
RefField(name) == [Field("ObjectId", FALSE, Absent, "none") EXCEPT !.ref = name]

\* The schemas the model is checked with.
\* { name: { type: String, required: true }, age: { type: Number, default: 0 } }
PersonSchema ==
  [name |-> Field("String", TRUE, Absent, "none"),
   age |-> Field("Number", FALSE, Num(0), "none")]
\* { name: { type: Date, required: true }, age: { type: Number, validate: v => v > 0 } }
EventSchema ==
  [name |-> Field("Date", TRUE, Absent, "none"),
   age |-> Field("Number", FALSE, Absent, "positive")]
SchemaSet == {PersonSchema, EventSchema}

\* { name: { type: String, required: true, validate: v => v !== 'x' },
\*   age: { type: Number, validate: v => v > 0 } }, then
\* schema.path('name').validate(v => v === 'a') and
\* schema.path('age').validate(v => v < 2).
CheckedSchema ==
  [name |-> [Field("String", TRUE, Absent, "notX") EXCEPT !.added = <<"isA">>],
   age |-> [Field("Number", FALSE, Absent, "positive") EXCEPT !.added = <<"small">>]]

\* The validator functions of the schemas: v => v > 0, v => v < 2,
\* v => v !== 'x', v => v === 'a', and the built-in v => v != null.
RunValidator(name, v) ==
  CASE name = "positive" -> JsLess(Num(0), v)
    [] name = "small" -> JsLess(v, Num(2))
    [] name = "notX" -> ~StrictEquals(v, Str(S_x))
    [] name = "isA" -> StrictEquals(v, Str(S_a))
    [] name = "required" -> ~IsNullish(v)
    [] name \in {"asyncFalse", "asyncReject"} -> FALSE
    [] OTHER -> TRUE

\* this.validators: the built-in required validator, which required() puts
\* at the front, then the validator of the options, then those added later.
Validators(options) ==
  (IF options.required THEN <<"required">> ELSE <<>>)
    \o (IF options.validate # "none" THEN <<options.validate>> ELSE <<>>)
    \o options.added

\* SchemaType.required() without arguments: whether the validators hold the
\* built-in required validator, which the constructor adds when
\* options.required is truthy.
IsRequired(options) == options.required

\* validateType(value, type) of utils.js: whether a value is of a declared
\* type.  None of the operations of the Model calls it.
ValidateType(v, type) ==
  CASE v.k \in {"absent", "undefined", "null"} -> FALSE
    [] type = "String" -> v.k = "string"
    [] type = "Number" -> v.k = "number"
    [] type = "Boolean" -> FALSE
    [] type = "Date" -> \/ v.k = "date"
                        \/ v.k = "number"
                        \/ v.k = "string" /\ DateParse(v.s) # InvalidDate
    [] type = "Array" -> v.k = "array"
    [] type = "Object" -> v.k \in {"object", "date", "document"}
    [] OTHER -> TRUE

\* SchemaType.cast: the setter chain (the schemas of the model have no
\* setters), with no check of the declared type.
Cast(options, v) == v

\* What validator.validator.call(context, value) returns: a validator whose
\* name starts with "async" returns a promise (a value with a then), the
\* others the boolean RunValidator gives.  RunValidator of an asynchronous
\* validator is what its promise settles with: asyncTrue resolves with true,
\* asyncFalse with false, asyncReject rejects.
IsAsync(name) == name \in {"asyncTrue", "asyncFalse", "asyncReject"}

\* validatorWrapper(ok) of one validator: it counts the validator, keeps its
\* message in err when ok is false and err is still empty ("": null), and
\* calls fn(err) when the count reaches the number of validators.  reports
\* lists the calls of fn.  Both then-callbacks of a promise end in the
\* wrapper: ok => validatorWrapper(ok), error => validatorWrapper(false).
ValidatorWrapper(state, name, ok) ==
  [state EXCEPT !.err = IF ~ok /\ state.err = "" THEN name ELSE @,
                !.completed = @ + 1,
                !.reports = IF state.completed + 1 = state.count
                            THEN Append(@, IF ~ok /\ state.err = "" THEN name ELSE state.err)
                            ELSE @]

\* Variant of ValidatorLoop: an error slot that every failing validator
\* overwrites.
RECURSIVE ValidatorLoopLastError(_, _, _)
ValidatorLoopLastError(validators, v, state) ==
  IF validators = <<>> THEN state
  ELSE IF IsAsync(Head(validators))
       THEN ValidatorLoopLastError(Tail(validators), v,
              [state EXCEPT !.ran = Append(@, Head(validators)),
                            !.pending = Append(@, Head(validators))])
  ELSE LET ok == RunValidator(Head(validators), v)
           err == IF ~ok THEN Head(validators) ELSE state.err
       IN ValidatorLoopLastError(Tail(validators), v,
            [state EXCEPT !.err = err,
                          !.completed = @ + 1,
                          !.ran = Append(@, Head(validators)),
                          !.reports = IF state.completed + 1 = state.count
                                      THEN Append(@, err) ELSE @])

\* The loop of doValidate: each validator is called; the wrapper of one that
\* returned a boolean runs at once, the wrapper of one that returned a
\* promise is left to the promise (pending) and has not run when the loop
\* ends.
RECURSIVE ValidatorLoop(_, _, _)
ValidatorLoop(validators, v, state) ==
  IF validators = <<>> THEN state
  ELSE IF IsAsync(Head(validators))
       THEN ValidatorLoop(Tail(validators), v,
              [state EXCEPT !.ran = Append(@, Head(validators)),
                            !.pending = Append(@, Head(validators))])
  ELSE ValidatorLoop(Tail(validators), v,
         [ValidatorWrapper(state, Head(validators), RunValidator(Head(validators), v))
            EXCEPT !.ran = Append(@, Head(validators))])

\* SchemaType.doValidate(value, fn) up to its return: without validators
\* fn(null) at once, else the loop.
DoValidate(options, v) ==
  IF Len(Validators(options)) = 0
  THEN [err |-> "", completed |-> 0, count |-> 0, ran |-> <<>>, reports |-> <<"">>,
        pending |-> <<>>]
  ELSE ValidatorLoop(Validators(options), v,
         [err |-> "", completed |-> 0, count |-> Len(Validators(options)),
          ran |-> <<>>, reports |-> <<>>, pending |-> <<>>])

\* The promises of the pending validators settle, in the order of their
\* calls, after doValidate and its caller have returned: each runs its
\* wrapper on the state the loop left.
RECURSIVE SettlePending(_, _)
SettlePending(state, v) ==
  IF state.pending = <<>> THEN state
  ELSE SettlePending(
         [ValidatorWrapper(state, Head(state.pending), RunValidator(Head(state.pending), v))
            EXCEPT !.pending = Tail(@)], v)

\* The callback Schema.validate passes to doValidate: every call with an
\* error pushes its message.
RECURSIVE Pushed(_, _)
Pushed(path, reports) ==
  IF reports = <<>> THEN <<>>
  ELSE (IF Head(reports) # "" THEN <<[path |-> path, error |-> Head(reports)]>> ELSE <<>>)
         \o Pushed(path, Tail(reports))
\* Variant of PathError: a required check that tests for undefined only, so
\* that null passes it.
PathErrorUndefinedOnly(sch, data, path) ==
  IF IsRequired(sch[path]) /\ Get(data, path).k \in {"absent", "undefined"}
  THEN <<[path |-> path, error |-> "is required"]>>
  ELSE IF ~IsNullish(Get(data, path))
       THEN Pushed(path, DoValidate(sch[path], Cast(sch[path], Get(data, path))).reports)
  ELSE <<>>

\* The error Schema.validate pushes for one path: "<path> is required" for a
\* required path whose value is null or undefined; else, for a value that is
\* not null, the error of doValidate on the cast value; else none.
PathError(schema, data, path) ==
  IF IsRequired(schema[path]) /\ IsNullish(Get(data, path))
  THEN <<[path |-> path, error |-> "is required"]>>
  ELSE IF ~IsNullish(Get(data, path))
       THEN Pushed(path, DoValidate(schema[path], Cast(schema[path], Get(data, path))).reports)
  ELSE <<>>

\* Schema.validate(data): the errors of the paths in declaration order.
RECURSIVE ValidatePaths(_, _, _)
ValidatePaths(schema, data, paths) ==
  IF paths = <<>> THEN <<>>
  ELSE PathError(schema, data, Head(paths)) \o ValidatePaths(schema, data, Tail(paths))

Validate(schema, data) == ValidatePaths(schema, data, Paths)

(***************************************************************************)
(* Model: the operations on one collection.                                *)
(***************************************************************************)
\* The operations in flight: each runs in one of the slots.
Procs == {1, 2}

\* The number of identifiers the ObjectId generator hands out.
MaxIds == 2

VARIABLES
  schema,   \* the Schema the Model was built with
  file,     \* the backing file: state "missing", "empty" or "json", and its records
  initPc,   \* the constructor's _initializeCollection: "read", "mkfile", "done"
  pc,       \* where each operation stands
  op,       \* the call of each operation: kind and arguments
  docs,     \* the local list each operation works on (docs, remaining)
  ret,      \* what each operation settles with
  stale,    \* whether a write has landed since the operation's read
  nextId,   \* the next identifier of the ObjectId generator
  held,     \* the Document the caller holds
  other,    \* a second Document the caller holds
  conn,     \* the Connection: readyState, the registered Models, calls in flight
  refFile,  \* the backing files of the Models the schemas' ref options name
  middleware \* the schema's save middleware: the pre and the post hooks

vars == <<schema, file, initPc, pc, op, docs, ret, stale, nextId, held, other,
          conn, refFile, middleware>>

\* new ObjectId().toString(): an opaque identifier, different at every call
\* and from every string of the callers.
IdChars == <<"1", "2", "3", "4", "5", "6", "7", "8", "9">>
ObjectId(i) == Str(<<"o", IdChars[i]>>)

\* new Date(): the instant the clock shows.  The operations of a run fall
\* within one millisecond.
Clock == {DateOf(S_t1)}

\* A criterion that is a plain object: { $gt: 1 }, { $regex: 'a', $options:
\* 'i' }.  s lists its entries, each an <<operator, operand>>, in insertion
\* order.
Operators(entries) == [k |-> "operators", n |-> 0, s |-> entries]

\* Object.entries(value) of a criterion that is an object: the entries of a
\* plain object; none for a Date; one per index for an array; the one
\* entry of the nested object { tags: v }.
Entries(value) ==
  CASE value.k = "operators" -> value.s
    [] value.k = "array" ->
         [i \in 1..Len(value.s) |-> <<ToString(i - 1), Str(<<value.s[i]>>)>>]
    [] value.k = "object" -> << <<"tags", Inner(value)>> >>
    [] OTHER -> <<>>

\* value.$options, and any other property read of a criterion: undefined
\* when the object has no such entry.
Property(value, name) ==
  IF \E i \in 1..Len(Entries(value)) : Entries(value)[i][1] = name
  THEN Entries(value)[CHOOSE i \in 1..Len(Entries(value)) : Entries(value)[i][1] = name][2]
  ELSE Undef

\* a <= b and a >= b: as a < b, and false as soon as a side is NaN.
JsLessEq(a, b) ==
  IF a.k = "string" /\ b.k = "string" THEN ~StrLess(b.s, a.s)
  ELSE IF IsNaN(a) \/ IsNaN(b) THEN FALSE
  ELSE ~JsLess(b, a)

\* docValue of $in and $nin: the stored array, or [doc[key]] for any other
\* stored value; and operand.some(item => docValue.includes(item)).  The
\* elements of the arrays of the model are one-character strings.
DocValue(v) == IF v.k = "array" THEN {Str(<<v.s[i]>>) : i \in 1..Len(v.s)} ELSE {v}
SomeIncluded(operand, v) ==
  \E i \in 1..Len(operand.s) : \E e \in DocValue(v) : StrictEquals(e, Str(<<operand.s[i]>>))

\* String(v), as regex.test converts its argument, for the values the
\* stored records of the model hold at the paths a pattern is tested on:
\* strings, undefined, null and the numbers 0 to 9.
S_undefined == <<"u", "n", "d", "e", "f", "i", "n", "e", "d">>
ToStringJs(v) ==
  CASE v.k = "string" -> v.s
    [] v.k = "null" -> S_null
    [] v.k = "number" -> <<ToString(v.n)>>
    [] OTHER -> S_undefined

\* new RegExp(pattern, flags).test(v) for the patterns of the model, which
\* are sequences of literal characters: the pattern occurs in String(v);
\* with the flag i letters match in either case.
LowerCase(c) ==
  CASE c = "A" -> "a" [] c = "B" -> "b" [] c = "T" -> "t" [] c = "X" -> "x"
    [] c = "Z" -> "z" [] OTHER -> c
Folded(cs, flags) ==
  IF flags.k = "string" /\ \E i \in 1..Len(flags.s) : flags.s[i] = "i"
  THEN [i \in 1..Len(cs) |-> LowerCase(cs[i])] ELSE cs
Occurs(needle, hay) ==
  \E i \in 0..(Len(hay) - Len(needle)) : SubSeq(hay, i + 1, i + Len(needle)) = needle
RegexTest(pattern, flags, v) ==
  Occurs(Folded(pattern.s, flags), Folded(ToStringJs(v), flags))

\* The switch of _matchQuery on one entry of a criterion; value is the
\* criterion the entry belongs to.  Any name that is not a case of the
\* switch gives false.
MatchOperator(v, operator, operand, value) ==
  CASE operator = "$gt" -> JsLess(operand, v)
    [] operator = "$gte" -> JsLessEq(operand, v)
    [] operator = "$lt" -> JsLess(v, operand)
    [] operator = "$lte" -> JsLessEq(v, operand)
    [] operator = "$ne" -> ~StrictEquals(v, operand)
    [] operator = "$in" -> SomeIncluded(operand, v)
    [] operator = "$nin" -> ~SomeIncluded(operand, v)
    [] operator = "$regex" -> RegexTest(operand, Property(value, "$options"), v)
    [] OTHER -> FALSE

\* _matchQuery: every key of the query must hold.  A criterion that is an
\* object (value && typeof value === 'object': a plain object, but also a
\* Date, an array or a nested object) is read as a set of operators, every
\* entry of which must hold; a Date criterion is an object without entries,
\* so nothing is asked of the record.  Any other criterion asks for
\* doc[key] === value.
IsObject(value) == value.k \in {"operators", "date", "array", "object"}
MatchCriterion(doc, key, value) ==
  IF IsObject(value)
  THEN \A i \in 1..Len(Entries(value)) :
         MatchOperator(Get(doc, key), Entries(value)[i][1], Entries(value)[i][2], value)
  ELSE StrictEquals(Get(doc, key), value)

MatchQuery(doc, query) ==
  \A key \in Keys : query[key].k # "absent" => MatchCriterion(doc, key, query[key])

\* docs.filter(pred) for pred(doc) == keep(doc).
RECURSIVE Filter(_, _, _)
Filter(list, query, keepMatching) ==
  IF list = <<>> THEN <<>>
  ELSE (IF MatchQuery(Head(list), query) = keepMatching THEN <<Head(list)>> ELSE <<>>)
         \o Filter(Tail(list), query, keepMatching)

\* docs.findIndex(doc => _matchQuery(doc, conditions)): 0 stands for -1.
FindIndex(list, query) ==
  IF \E i \in 1..Len(list) : MatchQuery(list[i], query)
  THEN CHOOSE i \in 1..Len(list) :
         /\ MatchQuery(list[i], query)
         /\ \A j \in 1..(i - 1) : ~MatchQuery(list[j], query)
  ELSE 0

\* The first loop of _createOne: the default of every path whose value is
\* undefined, then new Date(value) for a string at a path of type Date.
DefaultedPath(options, v) ==
  LET d == IF v.k \in {"absent", "undefined"} /\ options.default.k # "absent"
           THEN options.default ELSE v
  IN IF options.type = "Date" /\ d.k = "string" THEN DateParse(d.s) ELSE d

ApplyDefaults(sch, data) ==
  [key \in Keys |->
     IF key \in {"name", "age"} THEN DefaultedPath(sch[key], data[key]) ELSE data[key]]

\* The record _createOne builds:
\* { _id: new ObjectId().toString(), ...defaultedData, createdAt: now, updatedAt: now }.
NewDoc(id, defaultedData, now) ==
  [Spread([EmptyObj EXCEPT !["_id"] = id], defaultedData)
     EXCEPT !["createdAt"] = now, !["updatedAt"] = now]

\* The record updateOne stores: { ...docs[index], ...update, updatedAt: new Date() }.
Merged(doc, update, now) == [Spread(doc, update) EXCEPT !["updatedAt"] = now]

(***************************************************************************)
(* Query.exec and Aggregate.exec.                                          *)
(***************************************************************************)
\* The comparator both give to Array.prototype.sort: the entries of the
\* sorting object in insertion order, each a <<field, order>>.
RECURSIVE Comparator(_, _, _)
Comparator(sorting, a, b) ==
  IF sorting = <<>> THEN 0
  ELSE LET field == sorting[1][1]
           order == sorting[1][2]
       IN IF JsLess(Get(a, field), Get(b, field)) THEN (-1) * order
          ELSE IF JsLess(Get(b, field), Get(a, field)) THEN 1 * order
          ELSE Comparator(Tail(sorting), a, b)

\* Array.prototype.sort as the engine runs it on an array of fewer than 64
\* elements: the initial run is found (and reversed when it descends
\* strictly), then every later element is put in place by binary insertion.
\* Positions count from 0 as in the engine; arr[i + 1] is its element i.
RunDescends(arr, sorting) == Comparator(sorting, arr[2], arr[1]) < 0

RunContinues(arr, sorting, idx) ==
  IF RunDescends(arr, sorting)
  THEN Comparator(sorting, arr[idx + 1], arr[idx]) < 0
  ELSE Comparator(sorting, arr[idx + 1], arr[idx]) >= 0

CountRun(arr, sorting) ==
  CHOOSE r \in 2..Len(arr) :
    /\ \A idx \in 2..(r - 1) : RunContinues(arr, sorting, idx)
    /\ r = Len(arr) \/ ~RunContinues(arr, sorting, r)

MakeRun(arr, sorting) ==
  LET r == CountRun(arr, sorting)
  IN IF RunDescends(arr, sorting)
     THEN [i \in 1..Len(arr) |-> IF i <= r THEN arr[r + 1 - i] ELSE arr[i]]
     ELSE arr

RECURSIVE BinarySearch(_, _, _, _, _)
BinarySearch(arr, sorting, pivot, left, right) ==
  IF left < right
  THEN LET mid == left + ((right - left) \div 2)
       IN IF Comparator(sorting, pivot, arr[mid + 1]) < 0
          THEN BinarySearch(arr, sorting, pivot, left, mid)
          ELSE BinarySearch(arr, sorting, pivot, mid + 1, right)
  ELSE left

RECURSIVE BinaryInsertionSort(_, _, _)
BinaryInsertionSort(arr, sorting, start) ==
  IF start >= Len(arr) THEN arr
  ELSE LET pivot == arr[start + 1]
           left == BinarySearch(arr, sorting, pivot, 0, start)
           moved == [i \in 1..Len(arr) |->
                       IF i <= left THEN arr[i]
                       ELSE IF i = left + 1 THEN pivot
                       ELSE IF i <= start + 1 THEN arr[i - 1]
                       ELSE arr[i]]
       IN BinaryInsertionSort(moved, sorting, start + 1)

ArraySort(arr, sorting) ==
  IF Len(arr) < 2 THEN arr
  ELSE BinaryInsertionSort(MakeRun(arr, sorting), sorting, CountRun(arr, sorting))

\* if (value): undefined, null, 0 and the empty string are falsy.
Truthy(v) ==
  CASE v.k \in {"absent", "undefined", "null"} -> FALSE
    [] v.k = "number" -> v.n # 0
    [] v.k = "string" -> v.s # <<>>
    [] OTHER -> TRUE

\* arr.slice(from, to) for from, to >= 0.
Min(a, b) == IF a < b THEN a ELSE b
Slice(arr, from, to) == SubSeq(arr, from + 1, Min(to, Len(arr)))

\* Query.exec after _find resolved with list (no population): the sort, the
\* skip, the limit; the result is the _doc of each Document.
\* The three steps of exec on the list _find resolved with.
SortDocs(list, sorting) == IF Len(sorting) > 0 THEN ArraySort(list, sorting) ELSE list
SkipDocs(list, skip) == IF Truthy(skip) THEN Slice(list, skip.n, Len(list)) ELSE list
LimitDocs(list, limit) == IF Truthy(limit) THEN Slice(list, 0, limit.n) ELSE list
QueryExec(list, call) ==
  LimitDocs(SkipDocs(SortDocs(list, call.sort), call.skip), call.limit)

\* doc[path] through _getFieldValue: the keys of a dotted path in turn,
\* undefined as soon as a value on the way is falsy.  A path is the list of
\* its keys, <<"tag">> or <<"profile", "tags">>.
GetFieldValue(doc, path) ==
  IF Len(path) = 1 THEN Get(doc, path[1])
  ELSE IF Get(doc, path[1]).k = "object" THEN Inner(Get(doc, path[1]))
  ELSE Undef

\* Two values are the same key of a Map: primitives by value; a Date, an
\* array or an object only when it is the same object, which two records
\* read from the file never share.
IsPrimitive(v) == v.k \in {"undefined", "null", "number", "string"}
SameMapKey(list, path, i, j) ==
  \/ i = j
  \/ /\ IsPrimitive(GetFieldValue(list[i], path))
     /\ GetFieldValue(list[i], path) = GetFieldValue(list[j], path)

\* _initializeAccumulator: 0 for $sum; null for an operator its switch has
\* no case for, as $push.  ($avg, $min and $max are not among the
\* accumulators of the model.)
InitializeAccumulator(operator) ==
  CASE operator = "$sum" -> Num(0)
    [] OTHER -> Null

\* _updateAccumulator for one record: { $sum: 1 } adds 1; an operator its
\* switch has no case for, as $push, leaves the accumulator as it is.
UpdateAccumulator(acc, operator) ==
  CASE operator = "$sum" -> Num(acc.n + 1)
    [] OTHER -> acc

\* The accumulator of a group after count records.
RECURSIVE Accumulated(_, _)
Accumulated(operator, count) ==
  IF count = 0 THEN InitializeAccumulator(operator)
  ELSE UpdateAccumulator(Accumulated(operator, count - 1), operator)

\* _group with grouping { _id: "$<path>", <field>: { <accumulator>: ... } },
\* the accumulator { $sum: 1 } or { $push: "$<path>" }: one group for each
\* key of the Map in the order the keys were first seen, its accumulator
\* initialized and then updated for each record of the key; the key 'null'
\* is written as null.
RECURSIVE GroupFrom(_, _, _)
GroupFrom(list, grouping, i) ==
  IF i > Len(list) THEN <<>>
  ELSE (IF \E j \in 1..(i - 1) : SameMapKey(list, grouping.id, j, i) THEN <<>>
        ELSE LET key == GetFieldValue(list[i], grouping.id)
                 members == {j \in 1..Len(list) : SameMapKey(list, grouping.id, i, j)}
             IN << [EmptyObj EXCEPT
                      !["_id"] = IF key = Str(S_null) THEN Null ELSE key,
                      ![grouping.field] =
                         Accumulated(grouping.accumulator, Cardinality(members))] >>)
       \o GroupFrom(list, grouping, i + 1)

Group(list, grouping) == GroupFrom(list, grouping, 1)

\* _setFieldValue(newDoc, path, value) on newDoc = { ...doc }: a top-level
\* key is set in the copy; for a dotted path the object on the way is the
\* one doc holds, shared by every copy, and the value is set in it.
RECURSIVE UnwindDoc(_, _, _, _)
UnwindDoc(doc, path, array, i) ==
  IF i > Len(array.s) THEN <<>>
  ELSE << IF Len(path) = 1
          THEN [doc EXCEPT ![path[1]] = Str(<<array.s[i]>>)]
          ELSE [doc EXCEPT ![path[1]] = Nested(Str(<<array.s[Len(array.s)]>>))] >>
       \o UnwindDoc(doc, path, array, i + 1)

\* _unwind: each element of an array at the path gives a record, a record
\* without an array there is passed on.
RECURSIVE Unwind(_, _)
Unwind(list, path) ==
  IF list = <<>> THEN <<>>
  ELSE (IF GetFieldValue(Head(list), path).k = "array"
        THEN UnwindDoc(Head(list), path, GetFieldValue(Head(list), path), 1)
        ELSE <<Head(list)>>)
       \o Unwind(Tail(list), path)

\* Aggregate.exec: the stages of the pipeline in turn, each an operator with
\* its operation (the sorting of $sort, the number of $skip and $limit, the
\* path of $unwind, the grouping of $group).
NoStage ==
  [operator |-> "none", sorting |-> <<>>, n |-> 0, path |-> <<>>,
   grouping |-> [id |-> <<>>, field |-> "total", accumulator |-> "$sum"]]
SortStage(sorting) == [NoStage EXCEPT !.operator = "$sort", !.sorting = sorting]
SkipStage(n) == [NoStage EXCEPT !.operator = "$skip", !.n = n]
LimitStage(n) == [NoStage EXCEPT !.operator = "$limit", !.n = n]
UnwindStage(path) == [NoStage EXCEPT !.operator = "$unwind", !.path = path]
GroupStage(id, field) ==
  [NoStage EXCEPT !.operator = "$group",
                  !.grouping = [id |-> id, field |-> field, accumulator |-> "$sum"]]
\* { $group: { _id: "$<id>", <field>: { $push: "$<id>" } } }
GroupPushStage(id, field) ==
  [NoStage EXCEPT !.operator = "$group",
                  !.grouping = [id |-> id, field |-> field, accumulator |-> "$push"]]

RECURSIVE AggregateExec(_, _)
AggregateExec(list, pipeline) ==
  IF pipeline = <<>> THEN list
  ELSE LET stage == Head(pipeline)
           out == CASE stage.operator = "$sort" -> ArraySort(list, stage.sorting)
                    [] stage.operator = "$limit" -> Slice(list, 0, stage.n)
                    [] stage.operator = "$skip" -> Slice(list, stage.n, Len(list))
                    [] stage.operator = "$group" -> Group(list, stage.grouping)
                    [] stage.operator = "$unwind" -> Unwind(list, stage.path)
                    [] OTHER -> list
       IN AggregateExec(out, Tail(pipeline))

\* The Models the ref options of the schemas name.
RefModels == {"User", "Team"}

\* Document._populated of a new Document: a Map without entries.
NoPopulated == [key \in Keys |-> [has |-> FALSE, doc |-> EmptyObj]]

\* refModel.findOne({ _id: value }) inside _populateDoc: readJSON throws on a
\* file whose text does not parse, and reads a missing or empty file as [].
RefFindOne(refs, value) ==
  IF refs.state = "corrupt" THEN [threw |-> TRUE, found |-> <<>>]
  ELSE [threw |-> FALSE,
        found |-> Filter(IF refs.state = "json" THEN ParseFile(refs.text) ELSE <<>>,
                         [EmptyObj EXCEPT !["_id"] = value], TRUE)]

\* Whether _populateDoc gets as far as the findOne for a path: the path has
\* a schema with a ref option, the Model of that name is registered with the
\* connection and the Document's value at the path is truthy.
LooksUp(sch, models, doc, path) ==
  /\ path \in DOMAIN sch
  /\ sch[path].ref # ""
  /\ sch[path].ref \in models
  /\ Truthy(Get(doc, path))

\* Variant of PopulateDoc: a loop that ends at the first path it cannot
\* populate.
RECURSIVE PopulateDocBreaking(_, _, _, _, _, _)
PopulateDocBreaking(sch, models, refs, doc, paths, out) ==
  IF paths = <<>> THEN out
  ELSE LET path == Head(paths)
           result == RefFindOne(refs[sch[path].ref], Get(doc, path))
       IN IF LooksUp(sch, models, doc, path) /\ ~result.threw /\ result.found # <<>>
          THEN PopulateDocBreaking(sch, models, refs, doc, Tail(paths),
                 [doc |-> [out.doc EXCEPT ![path] = DocumentValue(result.found[1]["_id"])],
                  populated |-> [out.populated EXCEPT
                                   ![path] = [has |-> TRUE, doc |-> result.found[1]]]])
          ELSE out

\* The loop of _populateDoc over this._populate: out is populatedDoc, its
\* _doc and its _populated map.  A path that is not looked up, a lookup that
\* throws and a lookup that finds nothing leave out as it is.
RECURSIVE PopulateDoc(_, _, _, _, _, _)
PopulateDoc(sch, models, refs, doc, paths, out) ==
  IF paths = <<>> THEN out
  ELSE LET path == Head(paths)
           result == RefFindOne(refs[sch[path].ref], Get(doc, path))
           next ==
             IF LooksUp(sch, models, doc, path) /\ ~result.threw /\ result.found # <<>>
             THEN [doc |-> [out.doc EXCEPT ![path] = DocumentValue(result.found[1]["_id"])],
                   populated |-> [out.populated EXCEPT
                                    ![path] = [has |-> TRUE, doc |-> result.found[1]]]]
             ELSE out
       IN PopulateDoc(sch, models, refs, doc, Tail(paths), next)

\* Variant of WriteJSON: a write that keeps the records the file holds and
\* the data has not, after those of the data.
WriteJSONMerging(current, data) ==
  [state |-> "json",
   text |-> StringifyDocs(data) \o
            SelectSeq(current.text,
                      LAMBDA r : \A i \in 1..Len(data) : data[i]["_id"] # r["_id"])]

\* What writeJSON leaves in the file: the text of data, whatever the file held.
WriteJSON(current, data) == [state |-> "json", text |-> StringifyDocs(data)]

\* Results.
NoRet == [status |-> "none", hasDoc |-> FALSE, doc |-> EmptyObj, count |-> 0,
          errors |-> <<>>, list |-> <<>>, populated |-> <<>>, called |-> FALSE,
          isNew |-> FALSE, post |-> <<>>, clobbered |-> {}]
Rejected(errors) == [NoRet EXCEPT !.status = "rejected", !.errors = errors]
\* A result that is a Document, or a list of Documents: isNew is what the
\* constructor of Document sets, true.
NewDocument(doc) == [NoRet EXCEPT !.hasDoc = TRUE, !.doc = doc, !.isNew = TRUE]
NewDocuments(list) == [NoRet EXCEPT !.list = list, !.isNew = TRUE]
ResolvedDoc(doc) == [NewDocument(doc) EXCEPT !.status = "resolved"]
ResolvedNull == [NoRet EXCEPT !.status = "resolved"]
ResolvedCount(n) == [NoRet EXCEPT !.status = "resolved", !.count = n]
ResolvedList(list) == [NoRet EXCEPT !.status = "resolved", !.list = list]
ResolvedDocuments(list) == [NewDocuments(list) EXCEPT !.status = "resolved"]

\* A call: the kind of operation and its arguments (for a Query its
\* conditions, _sort as a list of <<field, order>>, _skip and _limit; for an
\* Aggregate its pipeline); batch marks the _createOne of an input of
\* create(list); fn tells whether the caller passed a callback; pre lists
\* the pre-save hooks the call has invoked; modified is the _modifiedPaths
\* of the Document a save was called on.
NoOp == [kind |-> "none", data |-> EmptyObj, cond |-> EmptyObj, update |-> EmptyObj,
         sort |-> <<>>, skip |-> Null, limit |-> Null, populate |-> <<>>,
         pipeline |-> <<>>, batch |-> FALSE, fn |-> FALSE, pre |-> <<>>,
         modified |-> {}]
NoHeld == [present |-> FALSE, doc |-> EmptyObj, id |-> Undef, modified |-> {}]

\* new Connection(dbPath): readyState 0 (disconnected) and no Models; no
\* connect() or close() is in flight.
NewConnection ==
  [readyState |-> 0, models |-> {}, connecting |-> FALSE, closing |-> FALSE]
\* A backing file that does not exist.
NoFile == [state |-> "missing", text |-> <<>>]
NoRefFiles == [m \in RefModels |-> NoFile]
\* The middleware of a new Schema: { pre: {}, post: {} }.
NoMiddleware == [pre |-> <<>>, post |-> <<>>]

(***************************************************************************)
(* The inputs of the callers.                                              *)
(***************************************************************************)
Obj1(k1, v1) == [EmptyObj EXCEPT ![k1] = v1]

\* The inputs of a caller that awaits each operation before the next.
CreateInputs ==
  { [EmptyObj EXCEPT !["_id"] = id, !["name"] = nm, !["age"] = ag] :
      id \in {Absent, Str(S_x)},
      nm \in {Absent, Null, Str(S_a), Str(S_iso), Str(S_isoBad)},
      ag \in {Absent, Num(0)} }

Conditions ==
  {EmptyObj, Obj1("_id", ObjectId(1)), Obj1("name", Str(S_a))}

Updates ==
  {Obj1("name", Str(S_a)), Obj1("_id", Str(S_x))}

\* The inputs of two callers at once.
ConcurrentInputs == {EmptyObj, Obj1("name", Str(S_a))}
ConcurrentConditions == {EmptyObj, Obj1("_id", ObjectId(1))}
ConcurrentUpdates == {Obj1("age", Num(1))}

(***************************************************************************)
(* The state after new Model(name, schema, connection): the constructor    *)
(* has started _initializeCollection and no operation has been called.     *)
(* The backing file does not exist yet, or exists and is empty.            *)
(***************************************************************************)
Init ==
  /\ schema \in SchemaSet
  /\ file \in {[state |-> st, text |-> <<>>] : st \in {"missing", "empty"}}
  /\ initPc = "read"
  /\ pc = [p \in Procs |-> "idle"]
  /\ op = [p \in Procs |-> NoOp]
  /\ docs = [p \in Procs |-> <<>>]
  /\ ret = [p \in Procs |-> NoRet]
  /\ stale = [p \in Procs |-> FALSE]
  /\ nextId = 1
  /\ held = NoHeld
  /\ other = NoHeld
  /\ conn = NewConnection
  /\ refFile = NoRefFiles
  /\ middleware = NoMiddleware

\* A write lands: every other operation that has read is now behind it.
Landed(p) == [q \in Procs |-> q # p]

\* readJSON inside _initializeCollection: the read, and for a missing or
\* empty file the writeJSON(filePath, []) that follows it.
InitRead ==
  /\ initPc = "read"
  /\ initPc' = IF file.state = "json" THEN "done" ELSE "mkfile"
  /\ UNCHANGED <<conn, refFile, middleware, schema, file, pc, op, docs, ret, stale, nextId, held, other>>

InitMkFile ==
  /\ initPc = "mkfile"
  /\ initPc' = "done"
  /\ file' = WriteJSON(file, <<>>)
  /\ stale' = Landed(0)
  /\ UNCHANGED <<conn, refFile, middleware, schema, pc, op, docs, ret, nextId, held, other>>

\* A save hook is a function the caller registered with schema.pre('save', fn)
\* or schema.post('save', fn): id tells the hooks apart; a hook that does
\* "pass" returns, one that does "throw" throws, and one that does "check"
\* throws when this.age is 0: function () { if (this.age === 0) throw ... }.
Hook(id, does) == [id |-> id, does |-> does]
HookThrows(hook, this) ==
  CASE hook.does = "throw" -> TRUE
    [] hook.does = "check" -> StrictEquals(Get(this, "age"), Num(0))
    [] OTHER -> FALSE

\* Variant of RunHooks: a loop that catches what a hook throws and goes on.
RECURSIVE RunHooksCatching(_, _)
RunHooksCatching(hooks, this) ==
  IF hooks = <<>> THEN [invoked |-> <<>>, threw |-> FALSE]
  ELSE [invoked |-> <<Head(hooks).id>> \o RunHooksCatching(Tail(hooks), this).invoked,
        threw |-> FALSE]

\* for (const middleware of hooks) await middleware.call(this): the hooks
\* are called in the order of the list; the loop ends at the first that
\* throws, and what it threw leaves the operation.
RECURSIVE RunHooks(_, _)
RunHooks(hooks, this) ==
  IF hooks = <<>> THEN [invoked |-> <<>>, threw |-> FALSE]
  ELSE IF HookThrows(Head(hooks), this)
       THEN [invoked |-> <<Head(hooks).id>>, threw |-> TRUE]
  ELSE [invoked |-> <<Head(hooks).id>> \o RunHooks(Tail(hooks), this).invoked,
        threw |-> RunHooks(Tail(hooks), this).threw]

\* The error of an operation that a hook ended.
HookError == <<[path |-> "save", error |-> "hook threw"]>>

\* What an operation does with the list readJSON returned, up to its next
\* await (a writeJSON) or its end.
Continue(p, call, list) ==
  CASE call.kind = "create" ->
         \E now \in Clock :
           LET newDoc == NewDoc(ObjectId(nextId), ApplyDefaults(schema, call.data), now)
           IN /\ docs' = [docs EXCEPT ![p] = Append(list, newDoc)]
              /\ ret' = [ret EXCEPT ![p] = NewDocument(newDoc)]
              /\ pc' = [pc EXCEPT ![p] = "write"]
              /\ nextId' = nextId + 1
    [] call.kind \in {"updateOne", "save"} ->
         LET index == FindIndex(list, call.cond)
         IN IF index # 0
            THEN \E now \in Clock :
                   /\ docs' = [docs EXCEPT ![p] =
                                [list EXCEPT ![index] = Merged(list[index], call.update, now)]]
                   /\ ret' = [ret EXCEPT ![p] = [NoRet EXCEPT !.count = 1]]
                   /\ pc' = [pc EXCEPT ![p] = "write"]
                   /\ nextId' = nextId
            ELSE LET post == IF call.kind = "save"
                             THEN RunHooks(middleware.post, call.update)
                             ELSE RunHooks(<<>>, EmptyObj)
                 IN /\ docs' = [docs EXCEPT ![p] = <<>>]
                    /\ ret' = [ret EXCEPT ![p] =
                                [(IF post.threw THEN Rejected(HookError)
                                  ELSE ResolvedCount(0)) EXCEPT !.post = post.invoked]]
                    /\ pc' = [pc EXCEPT ![p] = "done"]
                    /\ nextId' = nextId
    [] call.kind = "deleteMany" ->
         LET remaining == Filter(list, call.cond, FALSE)
         IN /\ docs' = [docs EXCEPT ![p] = remaining]
            /\ ret' = [ret EXCEPT ![p] = [NoRet EXCEPT !.count = Len(list) - Len(remaining)]]
            /\ pc' = [pc EXCEPT ![p] = "write"]
            /\ nextId' = nextId
    [] call.kind = "findOne" ->
         LET found == Filter(list, call.cond, TRUE)
         IN /\ docs' = [docs EXCEPT ![p] = <<>>]
            /\ ret' = [ret EXCEPT ![p] =
                        IF found # <<>> THEN ResolvedDoc(found[1]) ELSE ResolvedNull]
            /\ pc' = [pc EXCEPT ![p] = "done"]
            /\ nextId' = nextId
    [] call.kind = "exec" ->
         LET documents == QueryExec(Filter(list, call.cond, TRUE), call)
         IN /\ docs' = [docs EXCEPT ![p] = <<>>]
            /\ ret' = [ret EXCEPT ![p] =
                        [NewDocuments(documents) EXCEPT
                           !.status = IF Len(call.populate) > 0 THEN @ ELSE "resolved"]]
            /\ pc' = [pc EXCEPT ![p] = IF Len(call.populate) > 0 THEN "populate" ELSE "done"]
            /\ nextId' = nextId
    [] call.kind = "aggregate" ->
         /\ docs' = [docs EXCEPT ![p] = <<>>]
         /\ ret' = [ret EXCEPT ![p] = ResolvedList(AggregateExec(list, call.pipeline))]
         /\ pc' = [pc EXCEPT ![p] = "done"]
         /\ nextId' = nextId

\* readJSON as an operation calls it: fs.readFile resolves.  A file with text
\* is parsed and the operation goes on; for a missing or empty file readJSON
\* first awaits writeJSON(filePath, []).  The step starts at the call: between
\* the call and the read the operation holds its arguments and nothing else.
ReadJSON(p, call) ==
  /\ op' = [op EXCEPT ![p] = call]
  /\ stale' = [stale EXCEPT ![p] = FALSE]
  /\ IF file.state = "json"
     THEN Continue(p, call, ParseFile(file.text))
     ELSE /\ pc' = [pc EXCEPT ![p] = "mkfile"]
          /\ UNCHANGED <<docs, ret, nextId>>
  /\ UNCHANGED <<conn, refFile, middleware, schema, file, initPc>>

\* The creates in flight that have not drawn their identifier yet.
PendingCreates ==
  {q \in Procs : op[q].kind = "create" /\ pc[q] \in {"read", "mkfile"}}

\* Variant of CreateOne: _createOne without the throw, the errors computed
\* and dropped.
CreateOneNoThrow(p, data) ==
  /\ pc[p] = "idle"
  /\ nextId + Cardinality(PendingCreates) <= MaxIds
  /\ ReadJSON(p, [NoOp EXCEPT !.kind = "create", !.data = data])
  /\ held' = held /\ other' = other

\* Model.create(data) with one input: _createOne applies the defaults and
\* validates; with errors it throws before any await, else it calls the
\* pre-save hooks on the defaulted data, then reads the collection, appends
\* the new record and goes on to write.
CreateOne(p, data) ==
  LET errors == Validate(schema, ApplyDefaults(schema, data))
      pre == RunHooks(middleware.pre, ApplyDefaults(schema, data))
      call == [NoOp EXCEPT !.kind = "create", !.data = data,
                           !.pre = IF errors # <<>> THEN <<>> ELSE pre.invoked]
  IN /\ pc[p] = "idle"
     /\ IF errors # <<>> \/ pre.threw
        THEN /\ op' = [op EXCEPT ![p] = call]
             /\ pc' = [pc EXCEPT ![p] = "done"]
             /\ ret' = [ret EXCEPT ![p] =
                         Rejected(IF errors # <<>> THEN errors ELSE HookError)]
             /\ UNCHANGED <<conn, refFile, middleware, schema, file, initPc, docs, stale, nextId, held, other>>
        ELSE /\ nextId + Cardinality(PendingCreates) <= MaxIds
             /\ ReadJSON(p, call)
             /\ held' = held /\ other' = other

\* Model.create(list) with one input for each of the two operations it
\* starts: Promise.all over _createOne of each input.  Each _createOne runs to
\* its first await in turn: an input with errors is rejected there, and so
\* is an input on which a pre-save hook throws; the others have asked for
\* the file and read it in steps of their own.
CreateMany(items) ==
  LET errors(p) == Validate(schema, ApplyDefaults(schema, items[p]))
      pre(p) == RunHooks(middleware.pre, ApplyDefaults(schema, items[p]))
      thrown(p) == IF errors(p) # <<>> THEN errors(p)
                   ELSE IF pre(p).threw THEN HookError ELSE <<>>
  IN /\ \A p \in Procs : pc[p] = "idle"
     /\ nextId + Cardinality({p \in Procs : thrown(p) = <<>>}) <= MaxIds + 1
     /\ op' = [p \in Procs |->
                [NoOp EXCEPT !.kind = "create", !.data = items[p], !.batch = TRUE,
                             !.pre = IF errors(p) # <<>> THEN <<>> ELSE pre(p).invoked]]
     /\ pc' = [p \in Procs |-> IF thrown(p) # <<>> THEN "done" ELSE "read"]
     /\ ret' = [p \in Procs |-> IF thrown(p) # <<>> THEN Rejected(thrown(p)) ELSE NoRet]
     /\ UNCHANGED <<conn, refFile, middleware, schema, file, initPc, docs, stale, nextId, held, other>>

\* The readJSON of an input of create(list): fs.readFile resolves.
ReadStep(p) ==
  /\ pc[p] = "read"
  /\ ReadJSON(p, op[p])
  /\ held' = held /\ other' = other

\* Model.updateOne(conditions, update): reads the collection, replaces the
\* first match and goes on to write, or resolves at once without a match.
UpdateOne(p, conditions, update) ==
  /\ pc[p] = "idle"
  /\ ReadJSON(p, [NoOp EXCEPT !.kind = "updateOne", !.cond = conditions,
                              !.update = update])
  /\ held' = held /\ other' = other

\* Model.deleteMany(conditions): reads the collection, drops the matches and
\* goes on to write what remains.
DeleteMany(p, conditions) ==
  /\ pc[p] = "idle"
  /\ ReadJSON(p, [NoOp EXCEPT !.kind = "deleteMany", !.cond = conditions])
  /\ held' = held /\ other' = other

\* Model.findOne(conditions): reads the collection and resolves with a
\* Document of the first match, or null.
FindOne(p, conditions) ==
  /\ pc[p] = "idle"
  /\ ReadJSON(p, [NoOp EXCEPT !.kind = "findOne", !.cond = conditions])
  /\ held' = held /\ other' = other

\* Model.find(conditions).sort(sorting).skip(skip).limit(limit).exec(): reads
\* the collection and resolves with the Documents of the matches, sorted and
\* sliced.  skip and limit are null when the caller did not set them.
Exec(p, conditions, sorting, skip, limit) ==
  /\ pc[p] = "idle"
  /\ ReadJSON(p, [NoOp EXCEPT !.kind = "exec", !.cond = conditions, !.sort = sorting,
                              !.skip = skip, !.limit = limit])
  /\ held' = held /\ other' = other

\* Model.find(conditions).populate(path)...exec(): reads the collection and,
\* with the Documents of the matches, goes on to populate them.
ExecPopulate(p, conditions, populate) ==
  /\ pc[p] = "idle"
  /\ ReadJSON(p, [NoOp EXCEPT !.kind = "exec", !.cond = conditions,
                              !.populate = populate])
  /\ held' = held /\ other' = other

\* Promise.all over _populateDoc of every Document: the lookups of the
\* referenced records resolve, and exec resolves with the populated
\* Documents.  The readJSON of a lookup creates a backing file that is
\* missing or empty.
Populate(p) ==
  LET out(i) == PopulateDoc(schema, conn.models, refFile, ret[p].list[i], op[p].populate,
                            [doc |-> ret[p].list[i], populated |-> NoPopulated])
      read == {schema[op[p].populate[j]].ref : j \in {j \in 1..Len(op[p].populate) :
                 \E i \in 1..Len(ret[p].list) :
                   LooksUp(schema, conn.models, ret[p].list[i], op[p].populate[j])}}
  IN /\ pc[p] = "populate"
     /\ ret' = [ret EXCEPT ![p] =
                 [ResolvedDocuments([i \in 1..Len(ret[p].list) |-> out(i).doc])
                    EXCEPT !.populated = [i \in 1..Len(ret[p].list) |-> out(i).populated]]]
     /\ refFile' = [m \in RefModels |->
                      IF m \in read /\ refFile[m].state \in {"missing", "empty"}
                      THEN WriteJSON(refFile[m], <<>>) ELSE refFile[m]]
     /\ pc' = [pc EXCEPT ![p] = "done"]
     /\ UNCHANGED <<conn, middleware, schema, file, initPc, op, docs, stale, nextId, held, other>>

\* Model.aggregate(pipeline).exec(): reads the collection and resolves with
\* what the stages leave.
AggregateExecCall(p, pipeline) ==
  /\ pc[p] = "idle"
  /\ ReadJSON(p, [NoOp EXCEPT !.kind = "aggregate", !.pipeline = pipeline])
  /\ held' = held /\ other' = other

\* document.save(): the pre-save hooks are called on the Document, then
\* this._model.updateOne({ _id: this._id }, this._doc).
SaveDocument(p, document) ==
  LET pre == RunHooks(middleware.pre, document.doc)
      call == [NoOp EXCEPT !.kind = "save", !.cond = Obj1("_id", document.id),
                           !.update = document.doc, !.pre = pre.invoked,
                           !.modified = document.modified]
  IN /\ pc[p] = "idle"
     /\ document.present
     /\ IF pre.threw
        THEN /\ op' = [op EXCEPT ![p] = call]
             /\ pc' = [pc EXCEPT ![p] = "done"]
             /\ ret' = [ret EXCEPT ![p] = Rejected(HookError)]
             /\ UNCHANGED <<conn, refFile, middleware, schema, file, initPc, docs, stale, nextId>>
        ELSE ReadJSON(p, call)

\* Document.save() on the Document the caller holds.  It is the caller's
\* last use of the Document.
Save(p) ==
  /\ SaveDocument(p, held)
  /\ held' = NoHeld
  /\ other' = other

\* Document.save() on the second Document the caller holds.
SaveOther(p) ==
  /\ SaveDocument(p, other)
  /\ other' = NoHeld
  /\ held' = held

\* readJSON: the writeJSON(filePath, []) for a missing or empty file lands,
\* readJSON returns [] and the operation goes on.
MkFile(p) ==
  /\ pc[p] = "mkfile"
  /\ file' = WriteJSON(file, <<>>)
  /\ stale' = Landed(p)
  /\ Continue(p, op[p], <<>>)
  /\ UNCHANGED <<conn, refFile, middleware, schema, initPc, op, held, other>>

\* History kept with a result: the identifiers of the records that were in
\* the file when the operation's write landed, are not in what it wrote, and
\* are not records the operation is asked to delete.
Ids(list) == {list[i]["_id"] : i \in 1..Len(list)}
Clobbered(text, data, call) ==
  {text[i]["_id"] : i \in {j \in 1..Len(text) :
      /\ text[j]["_id"] \notin Ids(StringifyDocs(data))
      /\ ~(call.kind = "deleteMany" /\ MatchQuery(ParseFile(text)[j], call.cond))}}

\* The operation's writeJSON(collectionPath, docs) lands; a create then
\* calls the post-save hooks on the new record, a save on the Document; the
\* operation resolves, or rejects with what a hook threw.
Write(p) ==
  LET post == CASE op[p].kind = "create" -> RunHooks(middleware.post, ret[p].doc)
                [] op[p].kind = "save" -> RunHooks(middleware.post, op[p].update)
                [] OTHER -> RunHooks(<<>>, EmptyObj)
  IN
  /\ pc[p] = "write"
  /\ file' = WriteJSON(file, docs[p])
  /\ stale' = Landed(p)
  /\ pc' = [pc EXCEPT ![p] = "done"]
  /\ ret' = [ret EXCEPT ![p].status = IF post.threw THEN "rejected" ELSE "resolved",
                        ![p].errors = IF post.threw THEN HookError ELSE @,
                        ![p].post = post.invoked,
                        ![p].clobbered = Clobbered(file.text, docs[p], op[p])]
  /\ docs' = [docs EXCEPT ![p] = <<>>]
  /\ UNCHANGED <<conn, refFile, middleware, schema, initPc, op, nextId, held, other>>

\* new Document(obj, schema, model) as the caller holds it: _doc is a copy of
\* obj, _id is obj._id and _modifiedPaths is an empty Set.
DocumentOf(obj) ==
  [present |-> TRUE, doc |-> obj, id |-> Get(obj, "_id"), modified |-> {}]

\* The caller takes the result of a settled operation; that of create(list)
\* once the operation of every input has settled.
Return(p) ==
  /\ pc[p] = "done"
  /\ op[p].batch => \A q \in Procs : op[q].batch => pc[q] = "done"
  /\ pc' = [pc EXCEPT ![p] = "idle"]
  /\ op' = [op EXCEPT ![p] = NoOp]
  /\ ret' = [ret EXCEPT ![p] = NoRet]
  /\ UNCHANGED <<conn, refFile, middleware, schema, file, initPc, docs, stale, nextId, held, other>>

\* The caller takes the Document create or findOne resolved with, and keeps it.
ReturnDocument(p) ==
  /\ pc[p] = "done"
  /\ ret[p].status = "resolved" /\ ret[p].hasDoc
  /\ held' = DocumentOf(ret[p].doc)
  /\ other' = other
  /\ pc' = [pc EXCEPT ![p] = "idle"]
  /\ op' = [op EXCEPT ![p] = NoOp]
  /\ ret' = [ret EXCEPT ![p] = NoRet]
  /\ UNCHANGED <<conn, refFile, middleware, schema, file, initPc, docs, stale, nextId>>

\* doc.set(path, value), or doc.path = value through the accessor the
\* constructor defines for a key of _doc: the value goes into _doc and the
\* path into _modifiedPaths.
DocSet(path, value) ==
  /\ held.present
  /\ held' = [held EXCEPT !.doc[path] = value, !.modified = @ \cup {path}]
  /\ other' = other
  /\ UNCHANGED <<conn, refFile, middleware, schema, file, initPc, pc, op, docs, ret, stale, nextId>>

\* doc._id = value: _id is a plain property of the Document (the constructor
\* assigns it before it defines the accessors), so _doc keeps its _id.
DocAssignId(value) ==
  /\ held.present
  /\ held' = [held EXCEPT !.id = value]
  /\ other' = other
  /\ UNCHANGED <<conn, refFile, middleware, schema, file, initPc, pc, op, docs, ret, stale, nextId>>

\* The caller lets the Document go.
DocDrop ==
  /\ held.present
  /\ held' = NoHeld
  /\ other' = other
  /\ UNCHANGED <<conn, refFile, middleware, schema, file, initPc, pc, op, docs, ret, stale, nextId>>

\* The caller, holding a Document, takes the Document another findOne
\* resolved with, and keeps it as well.
ReturnOther(p) ==
  /\ pc[p] = "done"
  /\ ret[p].status = "resolved" /\ ret[p].hasDoc
  /\ held.present /\ ~other.present
  /\ other' = DocumentOf(ret[p].doc)
  /\ held' = held
  /\ pc' = [pc EXCEPT ![p] = "idle"]
  /\ op' = [op EXCEPT ![p] = NoOp]
  /\ ret' = [ret EXCEPT ![p] = NoRet]
  /\ UNCHANGED <<conn, refFile, middleware, schema, file, initPc, docs, stale, nextId>>

\* doc.set(path, value) on the second Document.
OtherSet(path, value) ==
  /\ other.present
  /\ other' = [other EXCEPT !.doc[path] = value, !.modified = @ \cup {path}]
  /\ held' = held
  /\ UNCHANGED <<conn, refFile, middleware, schema, file, initPc, pc, op, docs, ret, stale, nextId>>

(***************************************************************************)
(* The Connection.                                                         *)
(***************************************************************************)
\* connect() up to its await: readyState = 2, and fs.mkdir is asked for.
ConnectCall ==
  /\ ~conn.connecting
  /\ conn' = [conn EXCEPT !.readyState = 2, !.connecting = TRUE]
  /\ UNCHANGED <<refFile, middleware, schema, file, initPc, pc, op, docs, ret, stale,
                 nextId, held, other>>

\* connect() after its await: fs.mkdir resolved (readyState = 1) or failed
\* (readyState = 0, and connect rejects).
ConnectDone(made) ==
  /\ conn.connecting
  /\ conn' = [conn EXCEPT !.readyState = IF made THEN 1 ELSE 0, !.connecting = FALSE]
  /\ UNCHANGED <<refFile, middleware, schema, file, initPc, pc, op, docs, ret, stale,
                 nextId, held, other>>

\* disconnect(): no await in it; the registry is emptied and readyState = 0.
Disconnect ==
  /\ conn' = [conn EXCEPT !.models = {}, !.readyState = 0]
  /\ UNCHANGED <<refFile, middleware, schema, file, initPc, pc, op, docs, ret, stale,
                 nextId, held, other>>

\* close() up to its await: readyState = 3, then the body of disconnect(),
\* which runs within the call.
CloseCall ==
  /\ ~conn.closing
  /\ conn' = [conn EXCEPT !.models = {}, !.readyState = 0, !.closing = TRUE]
  /\ UNCHANGED <<refFile, middleware, schema, file, initPc, pc, op, docs, ret, stale,
                 nextId, held, other>>

\* close() after its await: readyState = 0.
CloseDone ==
  /\ conn.closing
  /\ conn' = [conn EXCEPT !.readyState = 0, !.closing = FALSE]
  /\ UNCHANGED <<refFile, middleware, schema, file, initPc, pc, op, docs, ret, stale,
                 nextId, held, other>>

\* connection.model(name, schema): a new Model is put in the registry.
RegisterModel(name) ==
  /\ conn' = [conn EXCEPT !.models = conn.models \cup {name}]
  /\ UNCHANGED <<refFile, middleware, schema, file, initPc, pc, op, docs, ret, stale,
                 nextId, held, other>>

\* The _initializeCollection the constructor of a registered Model started:
\* a backing file that is missing or empty is written as [].
RefInitialize(name) ==
  /\ name \in conn.models
  /\ refFile[name].state \in {"missing", "empty"}
  /\ refFile' = [refFile EXCEPT ![name] = WriteJSON(refFile[name], <<>>)]
  /\ UNCHANGED <<conn, middleware, schema, file, initPc, pc, op, docs, ret, stale,
                 nextId, held, other>>

\* The methods of the Connection that file storage does not support.
UnsupportedMethods == {"startSession", "withSession", "transaction", "watch"}

\* Variant of Unsupported: a method that runs the callback it is given and
\* resolves.
UnsupportedRunsCallback(p, method, fn) ==
  /\ pc[p] = "idle"
  /\ op' = [op EXCEPT ![p] = [NoOp EXCEPT !.kind = method, !.fn = fn]]
  /\ ret' = [ret EXCEPT ![p] = [ResolvedNull EXCEPT !.called = fn]]
  /\ pc' = [pc EXCEPT ![p] = "done"]
  /\ UNCHANGED <<conn, refFile, middleware, schema, file, initPc, docs, stale, nextId,
                 held, other>>

\* startSession(), withSession(fn), transaction(fn), watch(): async
\* functions whose body is a throw, so the promise rejects; a callback
\* passed to them is not called.
Unsupported(p, method, fn) ==
  /\ pc[p] = "idle"
  /\ op' = [op EXCEPT ![p] = [NoOp EXCEPT !.kind = method, !.fn = fn]]
  /\ ret' = [ret EXCEPT ![p] =
              Rejected(<<[path |-> method, error |-> "not supported in file-based storage"]>>)]
  /\ pc' = [pc EXCEPT ![p] = "done"]
  /\ UNCHANGED <<conn, refFile, middleware, schema, file, initPc, docs, stale, nextId,
                 held, other>>

(***************************************************************************)
(* Spec: one caller, which awaits each operation before it calls the next  *)
(* and, while it holds a Document, works on that Document only.  The       *)
(* constructor's _initializeCollection runs beside it.                     *)
(***************************************************************************)
Caller == 1

Next ==
  \/ InitRead
  \/ InitMkFile
  \/ /\ ~held.present
     /\ \/ \E data \in CreateInputs : CreateOne(Caller, data)
        \/ \E conditions \in Conditions, update \in Updates :
             UpdateOne(Caller, conditions, update)
        \/ \E conditions \in Conditions : DeleteMany(Caller, conditions)
        \/ \E conditions \in Conditions : FindOne(Caller, conditions)
  \/ Save(Caller)
  \/ MkFile(Caller)
  \/ Write(Caller)
  \/ Return(Caller)
  \/ ReturnDocument(Caller)
  \/ DocSet("name", Str(S_a))
  \/ DocSet("_id", Str(S_x))
  \/ DocAssignId(Str(S_x))
  \/ DocDrop

Spec == Init /\ [][Next]_vars

(***************************************************************************)
(* SpecConcurrent: two operations of the same Model in flight at once,     *)
(* called by callers that do not wait for each other or started together   *)
(* by one create(list).                                                    *)
(***************************************************************************)
InitConcurrent == Init /\ schema = PersonSchema

NextConcurrent ==
  \/ InitRead
  \/ InitMkFile
  \/ \E p \in Procs, data \in ConcurrentInputs : CreateOne(p, data)
  \/ \E items \in [Procs -> ConcurrentInputs] : CreateMany(items)
  \/ \E p \in Procs : ReadStep(p)
  \/ \E p \in Procs, conditions \in ConcurrentConditions, update \in ConcurrentUpdates :
       UpdateOne(p, conditions, update)
  \/ \E p \in Procs, conditions \in ConcurrentConditions : DeleteMany(p, conditions)
  \/ \E p \in Procs, conditions \in ConcurrentConditions : FindOne(p, conditions)
  \/ \E p \in Procs : MkFile(p)
  \/ \E p \in Procs : Write(p)
  \/ \E p \in Procs : Return(p)

SpecConcurrent == InitConcurrent /\ [][NextConcurrent]_vars

(***************************************************************************)
(* SpecQuery: one caller reading a collection that earlier operations      *)
(* stored; nothing writes while it reads.                                  *)
(***************************************************************************)
MaxQueryDocs == 3
MaxSkip == 3
MaxLimit == 2

\* { name: String, age: Number }
ItemSchema ==
  [name |-> Field("String", FALSE, Absent, "none"),
   age |-> Field("Number", FALSE, Absent, "none")]

\* The stored record at position i of a collection.
StoredRecord(i, nm, ag) ==
  [EmptyObj EXCEPT !["_id"] = ObjectId(i), !["name"] = nm, !["age"] = ag,
                   !["createdAt"] = Str(S_t1), !["updatedAt"] = Str(S_t1)]

StoredCollections ==
  UNION { { [i \in 1..n |-> StoredRecord(i, nms[i], ags[i])] :
              nms \in [1..n -> {Str(S_a), Str(S_b)}],
              ags \in [1..n -> {Absent, Num(1), Num(2)}] } : n \in 0..MaxQueryDocs }

QueryConditions == {EmptyObj, Obj1("name", Str(S_a))}

Sortings ==
  { <<>>, << <<"age", 1>> >>, << <<"age", -1>> >>, << <<"name", 1>>, <<"age", -1>> >> }

Skips == {Null} \cup {Num(n) : n \in 0..MaxSkip}
Limits == {Null} \cup {Num(n) : n \in 0..MaxLimit}

Pipelines ==
  { <<SortStage(<< <<"age", 1>> >>)>>,
    <<SortStage(<< <<"name", -1>>, <<"age", 1>> >>)>>,
    <<SortStage(<< <<"age", -1>> >>), SkipStage(1), LimitStage(1)>> }

InitQuery ==
  /\ schema = ItemSchema
  /\ file \in {[state |-> "json", text |-> c] : c \in StoredCollections}
  /\ initPc = "done"
  /\ pc = [p \in Procs |-> "idle"]
  /\ op = [p \in Procs |-> NoOp]
  /\ docs = [p \in Procs |-> <<>>]
  /\ ret = [p \in Procs |-> NoRet]
  /\ stale = [p \in Procs |-> FALSE]
  /\ nextId = 1
  /\ held = NoHeld
  /\ other = NoHeld
  /\ conn = NewConnection
  /\ refFile = NoRefFiles
  /\ middleware = NoMiddleware

NextQuery ==
  \/ \E conditions \in QueryConditions, sorting \in Sortings,
        skip \in Skips, limit \in Limits :
       Exec(Caller, conditions, sorting, skip, limit)
  \/ \E pipeline \in Pipelines : AggregateExecCall(Caller, pipeline)
  \/ Return(Caller)

SpecQuery == InitQuery /\ [][NextQuery]_vars

(***************************************************************************)
(* SpecAggregate: one caller running $group and $unwind pipelines over a   *)
(* stored collection of tagged records.                                    *)
(***************************************************************************)
MaxAggregateDocs == 2

\* The stored record at position i: { _id, tag, profile }.
TaggedRecord(i, tag, profile) ==
  [EmptyObj EXCEPT !["_id"] = ObjectId(i), !["tag"] = tag, !["profile"] = profile]

StoredTags ==
  {Absent, Null, Str(S_a), Str(S_null), Str(S_iso), Arr(<<>>), Arr(<<"x", "y">>)}

StoredProfiles == {Absent, Nested(Arr(<<"x", "y">>))}

TaggedCollections ==
  UNION { { [i \in 1..n |-> TaggedRecord(i, tags[i], profiles[i])] :
              tags \in [1..n -> StoredTags],
              profiles \in [1..n -> StoredProfiles] } : n \in 0..MaxAggregateDocs }

AggregatePipelines ==
  { <<GroupStage(<<"tag">>, "total")>>,
    <<UnwindStage(<<"tag">>)>>,
    <<UnwindStage(<<"profile", "tags">>)>>,
    <<UnwindStage(<<"tag">>), GroupStage(<<"tag">>, "total")>>,
    <<GroupPushStage(<<"tag">>, "total")>> }

InitAggregate ==
  /\ schema = ItemSchema
  /\ file \in {[state |-> "json", text |-> c] : c \in TaggedCollections}
  /\ initPc = "done"
  /\ pc = [p \in Procs |-> "idle"]
  /\ op = [p \in Procs |-> NoOp]
  /\ docs = [p \in Procs |-> <<>>]
  /\ ret = [p \in Procs |-> NoRet]
  /\ stale = [p \in Procs |-> FALSE]
  /\ nextId = 1
  /\ held = NoHeld
  /\ other = NoHeld
  /\ conn = NewConnection
  /\ refFile = NoRefFiles
  /\ middleware = NoMiddleware

NextAggregate ==
  \/ \E pipeline \in AggregatePipelines : AggregateExecCall(Caller, pipeline)
  \/ Return(Caller)

SpecAggregate == InitAggregate /\ [][NextAggregate]_vars

(***************************************************************************)
(* SpecPopulate: one caller reading a collection of posts whose author and *)
(* editor paths hold the identifiers of records of two other Models.       *)
(***************************************************************************)
MaxPopulateDocs == 2

\* { name: String, age: Number, author: { type: ObjectId, ref: 'User' },
\*   editor: { type: ObjectId, ref: 'Team' } }
PostSchema ==
  [name |-> Field("String", FALSE, Absent, "none"),
   age |-> Field("Number", FALSE, Absent, "none"),
   author |-> RefField("User"),
   editor |-> RefField("Team")]

\* The stored post at position i.
PostRecord(i, author, editor) ==
  [EmptyObj EXCEPT !["_id"] = ObjectId(i), !["name"] = Str(S_a),
                   !["author"] = author, !["editor"] = editor]

\* The record the other Models hold: its identifier is ObjectId(9).  No
\* record has the identifier ObjectId(8).
RefRecord == [EmptyObj EXCEPT !["_id"] = ObjectId(9), !["name"] = Str(S_b)]

StoredPosts ==
  UNION { { [i \in 1..n |-> PostRecord(i, authors[i], editors[i])] :
              authors \in [1..n -> {Absent, Null, ObjectId(8), ObjectId(9)}],
              editors \in [1..n -> {Absent, ObjectId(9)}] } : n \in 0..MaxPopulateDocs }

\* The backing file of another Model: missing, holding text that does not
\* parse, or holding its record.
RefFiles ==
  {NoFile, [state |-> "corrupt", text |-> <<>>], [state |-> "json", text |-> <<RefRecord>>]}

PopulateConditions == {EmptyObj, Obj1("author", ObjectId(9))}

Populates ==
  { <<"author">>, <<"editor", "author">>, <<"author", "editor">>, <<"name", "author">> }

InitPopulate ==
  /\ schema = PostSchema
  /\ file \in {[state |-> "json", text |-> c] : c \in StoredPosts}
  /\ initPc = "done"
  /\ pc = [p \in Procs |-> "idle"]
  /\ op = [p \in Procs |-> NoOp]
  /\ docs = [p \in Procs |-> <<>>]
  /\ ret = [p \in Procs |-> NoRet]
  /\ stale = [p \in Procs |-> FALSE]
  /\ nextId = 1
  /\ held = NoHeld
  /\ other = NoHeld
  /\ conn \in {[NewConnection EXCEPT !.readyState = 1, !.models = ms] : ms \in SUBSET RefModels}
  /\ refFile \in [RefModels -> RefFiles]
  /\ middleware = NoMiddleware

NextPopulate ==
  \/ \E conditions \in PopulateConditions, populate \in Populates :
       ExecPopulate(Caller, conditions, populate)
  \/ Populate(Caller)
  \/ Return(Caller)

SpecPopulate == InitPopulate /\ [][NextPopulate]_vars

(***************************************************************************)
(* SpecConnection: a Connection that is connected and closed and gets      *)
(* Models registered while a caller creates records and calls the methods  *)
(* that file storage does not support.                                     *)
(***************************************************************************)
ConnectionInputs == {Obj1("name", Str(S_a))}

InitConnection == Init /\ schema = PersonSchema

NextConnection ==
  \/ InitRead
  \/ InitMkFile
  \/ ConnectCall
  \/ \E made \in BOOLEAN : ConnectDone(made)
  \/ Disconnect
  \/ CloseCall
  \/ CloseDone
  \/ \E name \in RefModels : RegisterModel(name)
  \/ \E name \in RefModels : RefInitialize(name)
  \/ \E method \in UnsupportedMethods, fn \in BOOLEAN : Unsupported(Caller, method, fn)
  \/ \E data \in ConnectionInputs : CreateOne(Caller, data)
  \/ MkFile(Caller)
  \/ Write(Caller)
  \/ Return(Caller)

SpecConnection == InitConnection /\ [][NextConnection]_vars

(***************************************************************************)
(* SpecFields: one caller whose inputs hold values of other types than the *)
(* schema declares, and updates that empty a required path.                *)
(***************************************************************************)
FieldInputs ==
  { [EmptyObj EXCEPT !["name"] = nm, !["age"] = ag] :
      nm \in {Absent, Str(S_a)}, ag \in {Absent, Num(1), Str(S_a)} }

FieldConditions == {EmptyObj, Obj1("age", Num(1))}

FieldUpdates == {Obj1("name", Null), Obj1("age", Str(S_b)), Obj1("age", Num(2))}

InitFields == Init /\ schema = PersonSchema

NextFields ==
  \/ InitRead
  \/ InitMkFile
  \/ /\ ~held.present
     /\ \/ \E data \in FieldInputs : CreateOne(Caller, data)
        \/ \E conditions \in FieldConditions, update \in FieldUpdates :
             UpdateOne(Caller, conditions, update)
        \/ \E conditions \in FieldConditions : FindOne(Caller, conditions)
  \/ Save(Caller)
  \/ MkFile(Caller)
  \/ Write(Caller)
  \/ Return(Caller)
  \/ ReturnDocument(Caller)
  \/ DocSet("name", Null)
  \/ DocDrop

SpecFields == InitFields /\ [][NextFields]_vars

(***************************************************************************)
(* SpecHooks: a schema with two pre-save and two post-save hooks; one      *)
(* caller that creates records, one at a time or two with one create(list),*)
(* and saves the Document it holds.                                        *)
(***************************************************************************)
HookInputs == {Obj1("name", Str(S_a)), [Obj1("name", Str(S_a)) EXCEPT !["age"] = Num(1)]}

Middlewares ==
  { [pre |-> pre, post |-> post] :
      pre \in { <<Hook(1, "pass"), Hook(2, "pass")>>,
                <<Hook(1, "check"), Hook(2, "pass")>>,
                <<Hook(1, "pass"), Hook(2, "throw")>> },
      post \in { <<Hook(3, "pass"), Hook(4, "pass")>>,
                 <<Hook(3, "check"), Hook(4, "pass")>> } }

InitHooks ==
  /\ schema = PersonSchema
  /\ file \in {[state |-> st, text |-> <<>>] : st \in {"missing", "empty"}}
  /\ initPc = "read"
  /\ pc = [p \in Procs |-> "idle"]
  /\ op = [p \in Procs |-> NoOp]
  /\ docs = [p \in Procs |-> <<>>]
  /\ ret = [p \in Procs |-> NoRet]
  /\ stale = [p \in Procs |-> FALSE]
  /\ nextId = 1
  /\ held = NoHeld
  /\ other = NoHeld
  /\ conn = NewConnection
  /\ refFile = NoRefFiles
  /\ middleware \in Middlewares

NextHooks ==
  \/ InitRead
  \/ InitMkFile
  \/ /\ ~held.present
     /\ \A p \in Procs : pc[p] = "idle"
     /\ \/ \E data \in HookInputs : CreateOne(Caller, data)
        \/ \E items \in [Procs -> HookInputs] : CreateMany(items)
  \/ \E p \in Procs : ReadStep(p)
  \/ \E p \in Procs : MkFile(p)
  \/ \E p \in Procs : Write(p)
  \/ \E p \in Procs : Return(p)
  \/ ~op[Caller].batch /\ ReturnDocument(Caller)
  \/ \E age \in {Num(0), Num(1)} : DocSet("age", age)
  \/ Save(Caller)
  \/ DocDrop

SpecHooks == InitHooks /\ [][NextHooks]_vars

(***************************************************************************)
(* SpecValidators: one caller creating records under a schema whose paths  *)
(* have several validators each.                                           *)
(***************************************************************************)
ValidatedNames == {Absent, Null, Str(S_a), Str(S_b), Str(S_x)}
ValidatedAges == {Absent, Num(0), Num(1), Num(2), Str(S_a)}

ValidatedInputs ==
  { [EmptyObj EXCEPT !["name"] = nm, !["age"] = ag] :
      nm \in ValidatedNames, ag \in ValidatedAges }

InitValidators ==
  /\ schema = CheckedSchema
  /\ file \in {[state |-> st, text |-> <<>>] : st \in {"missing", "empty"}}
  /\ initPc = "read"
  /\ pc = [p \in Procs |-> "idle"]
  /\ op = [p \in Procs |-> NoOp]
  /\ docs = [p \in Procs |-> <<>>]
  /\ ret = [p \in Procs |-> NoRet]
  /\ stale = [p \in Procs |-> FALSE]
  /\ nextId = 1
  /\ held = NoHeld
  /\ other = NoHeld
  /\ conn = NewConnection
  /\ refFile = NoRefFiles
  /\ middleware = NoMiddleware

NextValidators ==
  \/ InitRead
  \/ InitMkFile
  \/ \E data \in ValidatedInputs : CreateOne(Caller, data)
  \/ MkFile(Caller)
  \/ Write(Caller)
  \/ Return(Caller)

SpecValidators == InitValidators /\ [][NextValidators]_vars

(***************************************************************************)
(* SpecAsync: one caller creating records under schemas whose validators   *)
(* are async functions, alone or after synchronous ones.                   *)
(***************************************************************************)
\* { name: { type: String, validate: nameValidator },
\*   age: { type: Number, validate: v => v > 0 } }, then
\* schema.path('age').validate(ageValidator); the validators are
\* async v => true, async v => false, async v => { throw new Error() }.
AsyncSchema(nameValidator, ageValidator) ==
  [name |-> Field("String", FALSE, Absent, nameValidator),
   age |-> [Field("Number", FALSE, Absent, "positive") EXCEPT !.added = <<ageValidator>>]]

AsyncSchemas ==
  { AsyncSchema(nameValidator, ageValidator) :
      nameValidator \in {"asyncTrue", "asyncFalse", "asyncReject"},
      ageValidator \in {"asyncTrue", "asyncFalse"} }

AsyncInputs ==
  { [EmptyObj EXCEPT !["name"] = nm, !["age"] = ag] :
      nm \in {Absent, Str(S_a)}, ag \in {Absent, Num(0), Num(1)} }

InitAsync ==
  /\ schema \in AsyncSchemas
  /\ file \in {[state |-> st, text |-> <<>>] : st \in {"missing", "empty"}}
  /\ initPc = "read"
  /\ pc = [p \in Procs |-> "idle"]
  /\ op = [p \in Procs |-> NoOp]
  /\ docs = [p \in Procs |-> <<>>]
  /\ ret = [p \in Procs |-> NoRet]
  /\ stale = [p \in Procs |-> FALSE]
  /\ nextId = 1
  /\ held = NoHeld
  /\ other = NoHeld
  /\ conn = NewConnection
  /\ refFile = NoRefFiles
  /\ middleware = NoMiddleware

NextAsync ==
  \/ InitRead
  \/ InitMkFile
  \/ \E data \in AsyncInputs : CreateOne(Caller, data)
  \/ MkFile(Caller)
  \/ Write(Caller)
  \/ Return(Caller)

SpecAsync == InitAsync /\ [][NextAsync]_vars

(***************************************************************************)
(* SpecMatch: one caller reading a stored collection with conditions of    *)
(* every kind _matchQuery tells apart.                                     *)
(***************************************************************************)
MaxMatchDocs == 2

\* The stored record at position i: { _id, name, age, tag, createdAt }.
MatchRecord(i, nm, ag, tg) ==
  [EmptyObj EXCEPT !["_id"] = ObjectId(i), !["name"] = nm, !["age"] = ag,
                   !["tag"] = tg, !["createdAt"] = Str(S_t1)]

MatchCollections ==
  UNION { { [i \in 1..n |-> MatchRecord(i, nms[i], ags[i], tgs[i])] :
              nms \in [1..n -> {Str(S_a), Str(S_b)}],
              ags \in [1..n -> {Absent, Num(1), Num(2)}],
              tgs \in [1..n -> {Absent, Arr(<<"x", "y">>)}] } : n \in 0..MaxMatchDocs }

\* where(path).regex(pattern, options) of the QueryBuilder:
\* conditions[path] = { $regex: pattern, $options: options }.
RegexCondition(path, pattern, options) ==
  Obj1(path, Operators(<< <<"$regex", pattern>>, <<"$options", options>> >>))

RegexConditions ==
  { RegexCondition("name", pattern, options) :
      pattern \in {Str(S_a), Str(<<"A">>), Str(<<>>)}, options \in {Undef, Str(<<"i">>)} }

OperatorConditions ==
  { Obj1("age", Operators(<< <<operator, Num(n)>> >>)) :
      operator \in {"$gt", "$gte", "$lt", "$lte", "$ne", "$exists"}, n \in {1, 2} }
  \cup { Obj1("name", Operators(<< <<operator, Arr(<<"a", "x">>)>> >>)) :
           operator \in {"$in", "$nin"} }
  \cup { Obj1("tag", Operators(<< <<operator, Arr(<<"x">>)>> >>)) :
           operator \in {"$in", "$nin"} }
  \cup { Obj1("age", Operators(<< <<"$gt", Num(0)>>, <<"$lt", Num(2)>> >>)),
         Obj1("name", Operators(<< <<"$regex", Str(S_a)>> >>)),
         Obj1("name", Operators(<<>>)) }

MatchConditions ==
  {EmptyObj, Obj1("name", Str(S_a)), Obj1("age", Null),
   [Obj1("name", Str(S_a)) EXCEPT !["age"] = Operators(<< <<"$gte", Num(2)>> >>)],
   Obj1("createdAt", DateOf(S_iso)), Obj1("createdAt", DateOf(S_t1)),
   Obj1("tag", Arr(<<>>)), Obj1("tag", Arr(<<"x", "y">>))}
  \cup OperatorConditions \cup RegexConditions

InitMatch ==
  /\ schema = ItemSchema
  /\ file \in {[state |-> "json", text |-> c] : c \in MatchCollections}
  /\ initPc = "done"
  /\ pc = [p \in Procs |-> "idle"]
  /\ op = [p \in Procs |-> NoOp]
  /\ docs = [p \in Procs |-> <<>>]
  /\ ret = [p \in Procs |-> NoRet]
  /\ stale = [p \in Procs |-> FALSE]
  /\ nextId = 1
  /\ held = NoHeld
  /\ other = NoHeld
  /\ conn = NewConnection
  /\ refFile = NoRefFiles
  /\ middleware = NoMiddleware

NextMatch ==
  \/ \E conditions \in MatchConditions : Exec(Caller, conditions, <<>>, Null, Null)
  \/ \E conditions \in MatchConditions : FindOne(Caller, conditions)
  \/ Return(Caller)

SpecMatch == InitMatch /\ [][NextMatch]_vars

(***************************************************************************)
(* SpecDocuments: one caller that finds a stored record twice, holds the   *)
(* two Documents, sets a path of each and saves them one after the other.  *)
(***************************************************************************)
\* The stored record at position i: { _id, name, age, createdAt, updatedAt }.
PersonRecord(i, nm, ag) ==
  [EmptyObj EXCEPT !["_id"] = ObjectId(i), !["name"] = nm, !["age"] = ag,
                   !["createdAt"] = Str(S_t1), !["updatedAt"] = Str(S_t1)]

PersonCollections ==
  { <<PersonRecord(1, nm, ag)>> : nm \in {Str(S_a), Str(S_x)}, ag \in {Num(0), Num(1)} }
  \cup { <<PersonRecord(1, Str(S_a), Num(0)), PersonRecord(2, Str(S_a), Num(1))>> }

DocumentConditions == {Obj1("_id", ObjectId(1)), Obj1("_id", ObjectId(2))}

InitDocuments ==
  /\ schema = PersonSchema
  /\ file \in {[state |-> "json", text |-> c] : c \in PersonCollections}
  /\ initPc = "done"
  /\ pc = [p \in Procs |-> "idle"]
  /\ op = [p \in Procs |-> NoOp]
  /\ docs = [p \in Procs |-> <<>>]
  /\ ret = [p \in Procs |-> NoRet]
  /\ stale = [p \in Procs |-> FALSE]
  /\ nextId = 1
  /\ held = NoHeld
  /\ other = NoHeld
  /\ conn = NewConnection
  /\ refFile = NoRefFiles
  /\ middleware = NoMiddleware

NextDocuments ==
  \/ \E conditions \in DocumentConditions : FindOne(Caller, conditions)
  \/ ~held.present /\ ReturnDocument(Caller)
  \/ ReturnOther(Caller)
  \/ DocSet("name", Str(S_b))
  \/ OtherSet("age", Num(2))
  \/ Save(Caller)
  \/ SaveOther(Caller)
  \/ Write(Caller)
  \/ Return(Caller)

SpecDocuments == InitDocuments /\ [][NextDocuments]_vars

(***************************************************************************)
(* Properties.                                                             *)
(***************************************************************************)
Range(seq) == {seq[i] : i \in 1..Len(seq)}

\* A path the schema requires and gives no default.
RequiredWithoutDefault(path) ==
  IsRequired(schema[path]) /\ schema[path].default.k = "absent"

RequiredError(path) == [path |-> path, error |-> "is required"]

\* C1: for a schema with a required path that has no default, and data in
\* which that path is undefined or null, Schema.validate returns the error
\* "<path> is required", and a create with that data has failed with it: the
\* operation is rejected as soon as it is called and never goes on to read
\* or write.
C1_RequiredPathRejectsCreate ==
  \A p \in Procs : \A i \in 1..Len(Paths) :
    ( /\ op[p].kind = "create"
      /\ RequiredWithoutDefault(Paths[i])
      /\ IsNullish(Get(op[p].data, Paths[i])) )
    => /\ RequiredError(Paths[i]) \in Range(Validate(schema, op[p].data))
       /\ RequiredError(Paths[i]) \in
            Range(Validate(schema, ApplyDefaults(schema, op[p].data)))
       /\ pc[p] = "done"
       /\ ret[p].status = "rejected"
       /\ RequiredError(Paths[i]) \in Range(ret[p].errors)

\* A create whose required name is null has been rejected while the
\* collection holds records.
C1_Witness ==
  /\ op[Caller].kind = "create"
  /\ RequiredWithoutDefault("name")
  /\ Get(op[Caller].data, "name") = Null
  /\ ret[Caller].status = "rejected"
  /\ RequiredError("name") \in Range(ret[Caller].errors)
  /\ file.text # <<>>

\* C6: the create of one record whose input fails validation (a create
\* called with that input, or the _createOne of that input in a create called
\* with a list) is rejected in the step that calls it, before any read, and
\* that step leaves the file as it was; a rejected input is never at a
\* write.  The other inputs of a list are created all the same.  (Casting
\* never fails: SchemaType.cast runs setters only.)
C6_FailedCreateWritesNothing ==
  [][\A p \in Procs :
       /\ ( /\ pc[p] = "idle"
            /\ op'[p].kind = "create"
            /\ Validate(schema, ApplyDefaults(schema, op'[p].data)) # <<>> )
          => /\ file' = file
             /\ pc'[p] = "done"
             /\ ret'[p].status = "rejected"
             /\ ret'[p].errors = Validate(schema, ApplyDefaults(schema, op'[p].data))
       /\ ( /\ op'[p].kind = "create"
            /\ ret'[p].status = "rejected"
            /\ pc'[p] # pc[p] )
          => /\ pc[p] = "idle"
             /\ pc'[p] = "done"
             /\ file' = file]_vars

\* One input of a create called with a list has been rejected for its
\* missing name, and the record of the other input is in the file.
C6_Witness ==
  \E p \in Procs : \E q \in Procs \ {p} :
    /\ op[p].kind = "create" /\ op[p].batch
    /\ pc[p] = "done" /\ ret[p].status = "rejected"
    /\ RequiredError("name") \in Range(ret[p].errors)
    /\ op[q].kind = "create" /\ op[q].batch
    /\ pc[q] = "done" /\ ret[q].status = "resolved"
    /\ Get(ret[q].doc, "_id") \in Ids(file.text)

\* The operations of one call: an operation itself, and the operations of
\* the inputs of one create(list).
SameCall(p, q) == p = q \/ (op[p].batch /\ op[q].batch)

\* C6 as first stated: no write lands for a create call that fails, that is,
\* for a call one of whose inputs has been rejected.
C6_FailedCallWritesNothing ==
  [][\A q \in Procs :
       (pc[q] = "write" /\ pc'[q] = "done" /\ op[q].kind = "create")
       => \A p \in Procs : SameCall(p, q) => ret[p].status # "rejected"]_vars

\* C3: a write always lands and replaces the whole file by what its
\* operation computed from its own read, also when another write landed in
\* between; so of two concurrent writers one can lose its change although
\* both resolve.
C3_LastWriterWins ==
  [][\A p \in Procs :
       (pc[p] = "write" /\ pc'[p] = "done")
       => /\ ret'[p].status = "resolved"
          /\ file'.text = StringifyDocs(docs[p])]_vars

\* Two creates have both resolved, and the record of one is not in the file:
\* the write of the other, computed from a read that preceded it, removed it.
C3_Witness ==
  \E p \in Procs : \E q \in Procs \ {p} :
    /\ op[p].kind = "create" /\ pc[p] = "done" /\ ret[p].status = "resolved"
    /\ op[q].kind = "create" /\ pc[q] = "done" /\ ret[q].status = "resolved"
    /\ Get(ret[p].doc, "_id") \in ret[q].clobbered
    /\ Get(ret[p].doc, "_id") \notin Ids(file.text)
    /\ Get(ret[q].doc, "_id") \in Ids(file.text)

\* What C2 expects of the found Document: the input with the defaults of the
\* schema (a date string at a Date path counting as the Date it denotes) and
\* the _id, createdAt and updatedAt the create assigned.
ExpectedObject(input, created) ==
  [key \in Keys |->
     IF key \in {"_id", "createdAt", "updatedAt"} THEN created[key]
     ELSE IF key \in {"name", "age"} THEN DefaultedPath(schema[key], input[key])
     ELSE input[key]]

\* C2: when the write of a create lands, findOne({ _id }) on the file as it
\* then is, with the _id of the created Document, finds a record, and the
\* object of the Document it resolves with is the input with the defaults and
\* the assigned _id, createdAt and updatedAt.
C2_CreateThenFindOne ==
  [][\A p \in Procs :
       (pc[p] = "write" /\ pc'[p] = "done" /\ op[p].kind = "create")
       => LET found == Filter(ParseFile(file'.text),
                              Obj1("_id", Get(ret'[p].doc, "_id")), TRUE)
          IN /\ found # <<>>
             /\ found[1] = ExpectedObject(op[p].data, ret'[p].doc)]_vars

\* C4: no two records of the file have the same _id.
C4_UniqueIds ==
  \A i \in 1..Len(file.text) : \A j \in 1..Len(file.text) :
    i # j => file.text[i]["_id"] # file.text[j]["_id"]

\* C5: the write of an updateOne or of a save, computed from the file as it
\* is, leaves the _id of the record at every position as it was.
C5_IdImmutable ==
  [][\A p \in Procs :
       ( /\ pc[p] = "write" /\ pc'[p] = "done"
         /\ op[p].kind \in {"updateOne", "save"}
         /\ ~stale[p] )
       => /\ Len(file'.text) = Len(file.text)
          /\ \A i \in 1..Len(file.text) :
               file'.text[i]["_id"] = file.text[i]["_id"]]_vars

\* The text of one record.
StringifyDoc(doc) == StringifyDocs(<<doc>>)[1]

\* C7: the write of an updateOne, computed from the file as it is, replaces
\* the first stored record the conditions match by the merge of that record
\* with the update and a new updatedAt, leaves every other record, the order
\* and the length as they were, and resolves with a modified count of 1; an
\* updateOne that matches no record leaves the file as it is and resolves
\* with a count of 0.
C7_UpdateOneReplacesFirstMatch ==
  [][\A p \in Procs :
       /\ ( /\ pc[p] = "write" /\ pc'[p] = "done"
            /\ op[p].kind = "updateOne"
            /\ ~stale[p] )
          => LET index == FindIndex(ParseFile(file.text), op[p].cond)
             IN /\ index # 0
                /\ Len(file'.text) = Len(file.text)
                /\ \A i \in 1..Len(file.text) :
                     i # index => file'.text[i] = file.text[i]
                /\ \E now \in Clock :
                     file'.text[index] =
                       StringifyDoc(Merged(file.text[index], op[p].update, now))
                /\ ret'[p].status = "resolved"
                /\ ret'[p].count = 1
       /\ ( /\ pc[p] = "idle"
            /\ op'[p].kind = "updateOne"
            /\ file.state = "json"
            /\ FindIndex(ParseFile(file.text), op'[p].cond) = 0 )
          => /\ file' = file
             /\ pc'[p] = "done"
             /\ ret'[p].status = "resolved"
             /\ ret'[p].count = 0]_vars

\* C8: the write of a deleteMany, computed from the file as it is, leaves
\* exactly the stored records the conditions do not match, as they were and in
\* their order; deletedCount is the number of records removed; and a find
\* with the same conditions on the file as it then is finds nothing.
C8_DeleteManyRemovesMatches ==
  [][\A p \in Procs :
       ( /\ pc[p] = "write" /\ pc'[p] = "done"
         /\ op[p].kind = "deleteMany"
         /\ ~stale[p] )
       => /\ file'.text =
               SelectSeq(file.text,
                         LAMBDA r : ~MatchQuery(ParseFile(<<r>>)[1], op[p].cond))
          /\ ret'[p].status = "resolved"
          /\ ret'[p].count = Len(file.text) - Len(file'.text)
          /\ Filter(ParseFile(file'.text), op[p].cond, TRUE) = <<>>]_vars

\* a comes before b under the sorting: the first key whose values differ
\* decides, ascending for 1 and descending for -1.
RECURSIVE Precedes(_, _, _)
Precedes(sorting, a, b) ==
  /\ sorting # <<>>
  /\ LET va == Get(a, sorting[1][1])
         vb == Get(b, sorting[1][1])
     IN IF JsLess(va, vb) \/ JsLess(vb, va)
        THEN IF sorting[1][2] = 1 THEN JsLess(va, vb) ELSE JsLess(vb, va)
        ELSE Precedes(Tail(sorting), a, b)

Position(list, r) == CHOOSE i \in 1..Len(list) : list[i] = r

\* result is source in the order of the sorting, ties in the order of source.
SortedStably(result, source, sorting) ==
  /\ Len(result) = Len(source)
  /\ Range(result) = Range(source)
  /\ \A i \in 1..Len(result) : \A j \in 1..Len(result) :
       i < j => /\ ~Precedes(sorting, result[j], result[i])
                /\ ~Precedes(sorting, result[i], result[j])
                     => Position(source, result[i]) < Position(source, result[j])

\* C9: Query.exec with a sort and no skip or limit resolves with the matches
\* ordered by the keys of the sort in their order, each by its direction,
\* ties in stored order; Aggregate.exec with a $sort stage does the same
\* with the whole collection.
C9_SortOrdersResult ==
  \A p \in Procs :
    (pc[p] = "done" /\ ret[p].status = "resolved")
    => /\ ( /\ op[p].kind = "exec"
            /\ op[p].sort # <<>>
            /\ op[p].skip = Null /\ op[p].limit = Null )
          => SortedStably(ret[p].list,
                          Filter(ParseFile(file.text), op[p].cond, TRUE), op[p].sort)
       /\ ( /\ op[p].kind = "aggregate"
            /\ Len(op[p].pipeline) = 1
            /\ op[p].pipeline[1].operator = "$sort" )
          => SortedStably(ret[p].list, ParseFile(file.text),
                          op[p].pipeline[1].sorting)

\* C10: find(conditions).skip(s).limit(l).exec() with s, l >= 0 resolves, and
\* with the records at positions s up to s + l of what find(conditions).exec()
\* resolves with.
C10_SkipLimitWindow ==
  \A p \in Procs :
    ( /\ pc[p] = "done"
      /\ op[p].kind = "exec"
      /\ op[p].sort = <<>>
      /\ op[p].skip.k = "number" /\ op[p].limit.k = "number" )
    => /\ ret[p].status = "resolved"
       /\ ret[p].list = Slice(Filter(ParseFile(file.text), op[p].cond, TRUE),
                              op[p].skip.n, op[p].skip.n + op[p].limit.n)

\* C11: aggregate().group({ _id: "$tag", total: { $sum: 1 } }).exec()
\* resolves with exactly one record for each tag value of the collection,
\* which has that value at _id and, at total, the number of records of the
\* collection with that tag value.
C11_GroupCountsEachTag ==
  \A p \in Procs :
    ( /\ pc[p] = "done"
      /\ op[p].kind = "aggregate"
      /\ op[p].pipeline = <<GroupStage(<<"tag">>, "total")>> )
    => LET input == ParseFile(file.text)
           tags == {GetFieldValue(input[i], <<"tag">>) : i \in 1..Len(input)}
           out == ret[p].list
       IN /\ ret[p].status = "resolved"
          /\ Len(out) = Cardinality(tags)
          /\ \A v \in tags :
               \E i \in 1..Len(out) :
                 /\ out[i]["_id"] = v
                 /\ out[i]["total"] =
                      Num(Cardinality({j \in 1..Len(input) :
                                         GetFieldValue(input[j], <<"tag">>) = v}))

\* doc with value at the path, every other field as it is.
SetAtPath(doc, path, value) ==
  IF Len(path) = 1 THEN [doc EXCEPT ![path[1]] = value]
  ELSE [doc EXCEPT ![path[1]] = Nested(value)]

\* What C12 expects of $unwind.
RECURSIVE Unwound(_, _)
Unwound(list, path) ==
  IF list = <<>> THEN <<>>
  ELSE LET doc == Head(list)
           array == GetFieldValue(doc, path)
       IN (IF array.k = "array"
           THEN [i \in 1..Len(array.s) |-> SetAtPath(doc, path, Str(<<array.s[i]>>))]
           ELSE <<doc>>)
          \o Unwound(Tail(list), path)

\* C12: aggregate().unwind(path).exec(), for a top-level or a dotted path,
\* resolves with, for each record in order, one record for each element of
\* the array at the path, with that element at the path and every other
\* field as in the record, or the record itself when there is no array at
\* the path.
C12_UnwindOneRecordPerElement ==
  \A p \in Procs :
    ( /\ pc[p] = "done"
      /\ op[p].kind = "aggregate"
      /\ Len(op[p].pipeline) = 1
      /\ op[p].pipeline[1].operator = "$unwind" )
    => /\ ret[p].status = "resolved"
       /\ ret[p].list = Unwound(ParseFile(file.text), op[p].pipeline[1].path)

\* Whether the record a path of a stored record refers to can be fetched: the
\* path's ref names a registered Model whose backing file parses and holds a
\* record with that identifier.
Resolvable(stored, path) ==
  /\ path \in DOMAIN schema
  /\ schema[path].ref \in conn.models
  /\ Truthy(Get(stored, path))
  /\ refFile[schema[path].ref].state = "json"
  /\ \E r \in Range(ParseFile(refFile[schema[path].ref].text)) :
       StrictEquals(r["_id"], stored[path])

\* C13: an exec with populate resolves with a Document for every matching
\* record.  A path whose referenced record can be fetched reads as the
\* populated Document and is in the populated map; any other path keeps the
\* stored reference and has no entry in the map, whatever became of the paths
\* before it.
C13_PopulationDegradesGracefully ==
  [][\A p \in Procs :
       pc[p] = "populate" /\ pc'[p] = "done" =>
         /\ ret'[p].status = "resolved"
         /\ ret[p].list = Filter(ParseFile(file.text), op[p].cond, TRUE)
         /\ Len(ret'[p].list) = Len(ret[p].list)
         /\ \A i \in 1..Len(ret[p].list) :
              LET stored == ret[p].list[i]
                  document == ret'[p].list[i]
                  populated == ret'[p].populated[i]
              IN /\ \A key \in Keys \ Range(op[p].populate) :
                      document[key] = stored[key] /\ ~populated[key].has
                 /\ \A path \in Range(op[p].populate) :
                      IF Resolvable(stored, path)
                      THEN /\ populated[path].has
                           /\ populated[path].doc["_id"] = stored[path]
                           /\ document[path] = DocumentValue(stored[path])
                      ELSE /\ ~populated[path].has
                           /\ document[path] = stored[path]]_vars

\* An exec that populated the author of its first Document although the
\* Model of the editor before it is not registered, and left the author of
\* its second Document, whose record does not exist, as stored.
C13_Witness ==
  \E p \in Procs :
    /\ pc[p] = "done" /\ ret[p].status = "resolved"
    /\ op[p].populate = <<"editor", "author">>
    /\ "Team" \notin conn.models
    /\ Len(ret[p].list) = 2
    /\ ret[p].list[1]["editor"] = ObjectId(9)
    /\ ~ret[p].populated[1]["editor"].has
    /\ ret[p].populated[1]["author"].has
    /\ ret[p].list[1]["author"] = DocumentValue(ObjectId(9))
    /\ ret[p].list[2]["author"] = ObjectId(8)
    /\ ~ret[p].populated[2]["author"].has

\* C14: a call of startSession, withSession, transaction or watch rejects
\* at once, with or without a callback and in whatever state the connection
\* is; the callback is not called, and the readiness state, the registry and
\* the backing files are what they were.
C14_UnsupportedAlwaysFails ==
  [][\A p \in Procs :
       op'[p].kind \in UnsupportedMethods /\ op[p].kind \notin UnsupportedMethods =>
         /\ pc'[p] = "done"
         /\ ret'[p].status = "rejected"
         /\ ret'[p].errors # <<>>
         /\ ~ret'[p].called
         /\ conn' = conn
         /\ file' = file
         /\ refFile' = refFile]_vars

\* A transaction(fn) that was rejected while a connect() was in flight, a
\* Model was registered and the collection held a record.
C14_Witness ==
  \E p \in Procs :
    /\ op[p].kind = "transaction" /\ op[p].fn
    /\ pc[p] = "done" /\ ret[p].status = "rejected"
    /\ conn.readyState = 2
    /\ conn.models # {}
    /\ file.state = "json" /\ Len(file.text) > 0

\* A path of the schema for which the data holds a value that is not of the
\* declared type.
IllTyped(data, path) ==
  ~IsNullish(Get(data, path)) /\ ~ValidateType(Get(data, path), schema[path].type)

\* C15: a create whose input holds, for some path, a value that is not of
\* the type the schema declares is rejected, and the collection does not
\* come to hold such a value.
C15_CreateRejectsWrongType ==
  /\ \A p \in Procs :
       /\ op[p].kind = "create" /\ pc[p] # "idle"
       /\ \E path \in Range(Paths) : IllTyped(ApplyDefaults(schema, op[p].data), path)
       => pc[p] = "done" /\ ret[p].status = "rejected"
  /\ \A i \in 1..Len(file.text), path \in Range(Paths) :
       ~IllTyped(ParseFile(file.text)[i], path)

\* C16: every stored record holds a value that is not null for every path
\* its schema requires, whatever updates and saves were made.
C16_StoredRecordsKeepRequiredPaths ==
  \A i \in 1..Len(file.text), path \in Range(Paths) :
    IsRequired(schema[path]) => ~IsNullish(Get(ParseFile(file.text)[i], path))

\* A value a collection may hold by the persistence contract: a string, a
\* number, a valid date, an array or a nested object (or no value).
Storable(v) ==
  \/ v.k \in {"absent", "string", "number", "array", "object"}
  \/ v.k = "date" /\ v.s # <<>>

\* C17: when an operation stores a list of records of storable values, a
\* load of the file gives the same list: every Date a Date, every other
\* value the same value of the same kind.
C17_RoundTrip ==
  [][\A p \in Procs :
       /\ pc[p] = "write" /\ pc'[p] = "done"
       /\ \A i \in 1..Len(docs[p]), key \in Keys : Storable(docs[p][i][key])
       => ParseFile(file'.text) = docs[p]]_vars

\* C18: the Document a create resolves with has isNew = true; the Document
\* a findOne resolves with, and the Documents an exec resolves with, have
\* isNew = false.
C18_IsNewOnlyAfterCreate ==
  \A p \in Procs :
    pc[p] = "done" /\ ret[p].status = "resolved" =>
      /\ op[p].kind = "create" => ret[p].hasDoc /\ ret[p].isNew
      /\ op[p].kind = "findOne" /\ ret[p].hasDoc => ~ret[p].isNew
      /\ op[p].kind = "exec" /\ ret[p].list # <<>> => ~ret[p].isNew

\* The identifiers of the hooks of a list, in registration order.
HookIds(hooks) == [i \in 1..Len(hooks) |-> hooks[i].id]

\* The position of the first hook of a list that throws on an object, or 0.
FirstThrower(hooks, this) ==
  LET throwers == {i \in 1..Len(hooks) : HookThrows(hooks[i], this)}
  IN IF throwers = {} THEN 0 ELSE CHOOSE i \in throwers : \A j \in throwers : i <= j

\* The hooks a loop over a list must have called: all of them in order, or
\* those up to the first that throws.
Called(hooks, this) ==
  IF FirstThrower(hooks, this) = 0 THEN HookIds(hooks)
  ELSE SubSeq(HookIds(hooks), 1, FirstThrower(hooks, this))

\* The object the pre-save hooks, and the post-save hooks, of an operation
\* are called on.
PreThis(p) ==
  IF op[p].kind = "create" THEN ApplyDefaults(schema, op[p].data) ELSE op[p].update
PostThis(p) == IF op[p].kind = "create" THEN ret[p].doc ELSE op[p].update

\* An operation that runs save hooks: the create of one valid record, or a
\* save.
Hooked(p) ==
  \/ op[p].kind = "create" /\ Validate(schema, ApplyDefaults(schema, op[p].data)) = <<>>
  \/ op[p].kind = "save"

\* The state part of C19: the pre-save hooks an operation has called are
\* those in registration order up to the first that throws; when one throws
\* the operation is rejected and has called no post-save hook; no post-save
\* hook is called before the operation has written, and after it the
\* post-save hooks are called in registration order up to the first that
\* throws, the operation being rejected when one does.
HooksInOrder(p) ==
  /\ op[p].pre = Called(middleware.pre, PreThis(p))
  /\ FirstThrower(middleware.pre, PreThis(p)) # 0 =>
       pc[p] = "done" /\ ret[p].status = "rejected" /\ ret[p].post = <<>>
  /\ pc[p] # "done" => ret[p].post = <<>>
  /\ pc[p] = "done" /\ FirstThrower(middleware.pre, PreThis(p)) = 0 =>
       /\ ret[p].post = Called(middleware.post, PostThis(p))
       /\ ret[p].status = "rejected" <=> FirstThrower(middleware.post, PostThis(p)) # 0

\* C19: for the create of one record (a create with one input, or the
\* _createOne of one input of a create with a list) and for a save, the
\* pre-save hooks are called in registration order before the write and the
\* post-save hooks in registration order after it; a hook that throws ends
\* the hooks and rejects the operation, and when it is a pre-save hook the
\* operation makes no write: the step that rejects it leaves the file as it
\* was, and a write is made only by an operation all of whose pre-save
\* hooks have returned.
C19_HooksOrderedFailFast ==
  [][\A p \in Procs :
       /\ Hooked(p) /\ pc[p] # "idle" => HooksInOrder(p)
       /\ ( /\ pc[p] = "idle" /\ pc'[p] = "done"
            /\ op'[p].kind \in {"create", "save"} )
          => file' = file
       /\ ( /\ pc[p] \in {"write", "mkfile"} /\ pc'[p] # pc[p]
            /\ op[p].kind \in {"create", "save"} )
          => /\ op[p].pre = HookIds(middleware.pre)
             /\ FirstThrower(middleware.pre, PreThis(p)) = 0
             /\ ret[p].post = <<>>]_vars

\* In a create with a list, the first pre-save hook threw on one input and
\* the second hook was not called for it, while the record of the other
\* input was written and every hook was called for it.
C19_Witness ==
  \E p \in Procs : \E q \in Procs \ {p} :
    /\ op[p].kind = "create" /\ op[p].batch /\ op[q].kind = "create" /\ op[q].batch
    /\ pc[p] = "done" /\ ret[p].status = "rejected"
    /\ op[p].pre = <<1>> /\ Len(middleware.pre) = 2
    /\ pc[q] = "done" /\ ret[q].status = "resolved"
    /\ op[q].pre = <<1, 2>> /\ ret[q].post = <<3, 4>>
    /\ Get(ret[q].doc, "_id") \in Ids(file.text)

\* C19 as first stated: no write lands for a call in which a pre-save hook
\* has thrown.
C19_ThrowingPreHookStopsCall ==
  [][\A q \in Procs :
       (pc[q] = "write" /\ pc'[q] = "done" /\ op[q].kind \in {"create", "save"})
       => \A p \in Procs :
            SameCall(p, q) /\ Hooked(p) => FirstThrower(middleware.pre, PreThis(p)) = 0]_vars

\* The positions of the validators of a path that return false on a value.
Failing(path, v) ==
  {i \in 1..Len(Validators(schema[path])) : ~RunValidator(Validators(schema[path])[i], v)}

\* The message of the first validator of a path that fails on a value, or "".
FirstFailure(path, v) ==
  IF Failing(path, v) = {} THEN ""
  ELSE Validators(schema[path])[CHOOSE i \in Failing(path, v) :
                                   \A j \in Failing(path, v) : i <= j]

\* Whether Schema.validate has an error for a path of the data.
PathFails(data, path) ==
  IF IsNullish(Get(data, path)) THEN IsRequired(schema[path])
  ELSE Failing(path, Get(data, path)) # {}

\* C20: doValidate on a path with several synchronous validators calls
\* every validator, calls its callback once, and reports the message of the
\* first validator that fails (that of the required validator on a null
\* value of a required path), or no error; a rejected create has one error
\* for each path that fails and none for the others, whatever the other
\* paths did.
C20_SingleErrorSlot ==
  /\ \A path \in Range(Paths), v \in ValidatedNames \cup ValidatedAges :
       LET result == DoValidate(schema[path], Get([EmptyObj EXCEPT ![path] = v], path))
       IN /\ result.ran = Validators(schema[path])
          /\ Len(result.reports) = 1
          /\ result.reports[1] = FirstFailure(path, Get([EmptyObj EXCEPT ![path] = v], path))
          /\ IsRequired(schema[path]) /\ IsNullish(v) => result.reports[1] = "required"
  /\ \A p \in Procs :
       op[p].kind = "create" /\ pc[p] # "idle" =>
         LET data == ApplyDefaults(schema, op[p].data)
             errors(path) == SelectSeq(ret[p].errors, LAMBDA e : e.path = path)
         IN /\ (\E path \in Range(Paths) : PathFails(data, path))
                 <=> (pc[p] = "done" /\ ret[p].status = "rejected")
            /\ ret[p].status = "rejected" =>
                 \A path \in Range(Paths) :
                   /\ Len(errors(path)) = IF PathFails(data, path) THEN 1 ELSE 0
                   /\ PathFails(data, path) /\ ~IsNullish(Get(data, path)) =>
                        errors(path)[1].error = FirstFailure(path, Get(data, path))

\* A create rejected with one error for each path, on a name and an age
\* that fail both validators of their paths: the errors are those of the
\* first validators.
C20_Witness ==
  \E p \in Procs :
    /\ schema = CheckedSchema
    /\ op[p].kind = "create" /\ pc[p] = "done" /\ ret[p].status = "rejected"
    /\ op[p].data["name"] = Str(S_x) /\ op[p].data["age"] = Str(S_a)
    /\ Failing("name", Str(S_x)) = {2, 3} /\ Failing("age", Str(S_a)) = {1, 2}
    /\ ret[p].errors = <<[path |-> "name", error |-> "notX"],
                         [path |-> "age", error |-> "positive"]>>

\* A path whose value passes what its validators report before doValidate
\* returns, and fails once the promises of its asynchronous validators have
\* settled.
FailsWhenSettled(data, path) ==
  /\ ~IsNullish(Get(data, path))
  /\ \E i \in 1..Len(SettlePending(DoValidate(schema[path], Get(data, path)),
                                   Get(data, path)).reports) :
       SettlePending(DoValidate(schema[path], Get(data, path)),
                     Get(data, path)).reports[i] # ""

\* C21: a create whose input holds, at some path, a value on which a
\* validator of the path returns a promise that resolves with false or
\* rejects gets an error for that path from Schema.validate and is rejected,
\* and no record of it is written.
C21_AsyncValidatorsHonoured ==
  \A p \in Procs :
    /\ op[p].kind = "create" /\ pc[p] # "idle"
    /\ \E path \in Range(Paths) : FailsWhenSettled(ApplyDefaults(schema, op[p].data), path)
    => /\ Validate(schema, ApplyDefaults(schema, op[p].data)) # <<>>
       /\ pc[p] = "done" /\ ret[p].status = "rejected"


\* Two values with the same content: the equality of two primitives, and of
\* two Dates, arrays or objects compared by what they hold.
SameContent(a, b) == a.k = b.k /\ a.n = b.n /\ a.s = b.s

\* The predicate C22 describes, with the equality of a criterion that is no
\* plain mapping given as a parameter: a plain mapping asks for each of its
\* operators, any other criterion for equality with the stored value.
Described(doc, query, Equal(_, _)) ==
  \A key \in Keys :
    query[key].k # "absent" =>
      IF query[key].k = "operators"
      THEN \A i \in 1..Len(query[key].s) :
             MatchOperator(Get(doc, key), query[key].s[i][1], query[key].s[i][2], query[key])
      ELSE Equal(Get(doc, key), query[key])

\* The conditions C22 speaks of: those without a $regex, which C23 is about.
WithoutRegex(query) ==
  \A key \in Keys : query[key].k = "operators" =>
    \A i \in 1..Len(query[key].s) : query[key].s[i][1] # "$regex"

\* C22: find(conditions).exec() resolves with the stored records that the
\* described predicate holds of: a record that satisfies every key of the
\* conditions (a criterion that is no plain mapping by ===) is in the
\* result, and every record in the result satisfies every key (a criterion
\* that is no plain mapping at least by content).
C22_MatchQueryAsDescribed ==
  \A p \in Procs :
    op[p].kind = "exec" /\ pc[p] = "done" /\ ret[p].status = "resolved"
    /\ WithoutRegex(op[p].cond)
    => \A i \in 1..Len(file.text) :
         /\ Described(ParseFile(file.text)[i], op[p].cond, StrictEquals)
              => \E j \in 1..Len(ret[p].list) :
                   ret[p].list[j]["_id"] = ParseFile(file.text)[i]["_id"]
         /\ (\E j \in 1..Len(ret[p].list) :
               ret[p].list[j]["_id"] = ParseFile(file.text)[i]["_id"])
              => Described(ParseFile(file.text)[i], op[p].cond, SameContent)

\* The condition of an operation is one that where(path).regex(pattern,
\* options) built at name.
IsRegexCondition(query) ==
  /\ query["name"].k = "operators"
  /\ Len(query["name"].s) = 2
  /\ query["name"].s[1][1] = "$regex"
  /\ query["name"].s[2][1] = "$options"

\* C23: find().where('name').regex(pattern, options).exec() resolves with
\* exactly the stored records whose name matches the regular expression
\* with those options.
C23_RegexMatchesWithOptions ==
  \A p \in Procs :
    op[p].kind = "exec" /\ pc[p] = "done" /\ ret[p].status = "resolved"
    /\ IsRegexCondition(op[p].cond)
    => \A i \in 1..Len(file.text) :
         RegexTest(op[p].cond["name"].s[1][2], op[p].cond["name"].s[2][2],
                   Get(ParseFile(file.text)[i], "name"))
         <=> \E j \in 1..Len(ret[p].list) :
               ret[p].list[j]["_id"] = ParseFile(file.text)[i]["_id"]


\* C24: aggregate([{ $group: { _id: "$tag", total: { $push: "$tag" } } }])
\* resolves with groups whose total is an array with one element for each
\* member record of the group.
C24_PushCollectsMembers ==
  \A p \in Procs :
    op[p].kind = "aggregate" /\ pc[p] = "done" /\ ret[p].status = "resolved"
    /\ op[p].pipeline = <<GroupPushStage(<<"tag">>, "total")>>
    => \A g \in 1..Len(ret[p].list) :
         /\ ret[p].list[g]["total"].k = "array"
         /\ Len(ret[p].list[g]["total"].s) =
              Cardinality({i \in 1..Len(file.text) :
                 LET key == GetFieldValue(ParseFile(file.text)[i], <<"tag">>)
                 IN (IF key = Str(S_null) THEN Null ELSE key) = ret[p].list[g]["_id"]})


\* C25: when create(list) with two valid inputs has resolved, the stored
\* collection holds a record for each Document it resolved with.
C25_BatchCreateKeepsEveryRecord ==
  (\A p \in Procs : /\ op[p].kind = "create" /\ op[p].batch
                    /\ pc[p] = "done" /\ ret[p].status = "resolved")
  => \A p \in Procs :
       \E i \in 1..Len(file.text) : file.text[i]["_id"] = ret[p].doc["_id"]


\* C26: the write of a save leaves, in every stored record, every path as
\* it was that the saved Document did not modify (updatedAt apart, which
\* every update sets).
C26_SaveWritesModifiedPathsOnly ==
  [][\A p \in Procs :
       pc[p] = "write" /\ pc'[p] = "done" /\ op[p].kind = "save"
       => /\ Len(file'.text) = Len(file.text)
          /\ \A i \in 1..Len(file.text) :
               \A path \in Keys \ ({"updatedAt"} \cup op[p].modified) :
                 file'.text[i][path] = file.text[i][path]]_vars


\* C27: readyState is always one of 0 (disconnected), 1 (connected),
\* 2 (connecting) and 3 (disconnecting); a connect() whose mkdir succeeds
\* leaves it 1; and once it is 0 with no close() still running, as it is
\* when close() or disconnect() has resolved, it stays 0 until a step that
\* invokes connect().
C27_ReadyStateMachine ==
  [][/\ conn'.readyState \in {0, 1, 2, 3}
     /\ (conn.connecting /\ ~conn'.connecting /\ conn'.readyState # 0)
          => conn'.readyState = 1
     /\ (conn.readyState = 0 /\ ~conn.closing /\ ~(~conn.connecting /\ conn'.connecting))
          => conn'.readyState = 0]_vars


\* C28: no step of a find().exec(), a findOne or an aggregate().exec()
\* changes the sequence of stored records, whatever the other operations in
\* flight do (a missing or empty file holds no records).
C28_ReadsLeaveCollection ==
  [][\A p \in Procs :
       /\ op'[p].kind \in {"findOne", "exec", "aggregate"}
       /\ pc'[p] # pc[p]
       => file'.text = file.text]_vars

====
